---------------------------- MODULE Spec2Model ----------------------------
(* price-tracker-v2: the catalog repositories, the observation repository  *)
(* and the scrape-all ingestion loop, as a state machine over the SQLite   *)
(* tables.  Strings are sequences of one-character strings so that         *)
(* str.strip() and str.lower() are computed, not assumed.                  *)
EXTENDS Integers, Sequences, FiniteSets, TLC

VARIABLES
    db,             \* the committed (durable) tables of the SQLite file
    conn,           \* the tables as the open connection sees them (db + open transaction)
    pc,             \* position of cmd_scrape_all, or how the last run ended
    items,          \* cmd_scrape_all: the list returned by list_for_scrape
    idx,            \* cmd_scrape_all: index of the item the loop is at (1-based)
    observed_on,    \* cmd_scrape_all: args.date or today
    fail_on_error,  \* cmd_scrape_all: args.fail_on_error
    scraped,        \* cmd_scrape_all: the (price_cents, title_raw) scrape_url returned
    ok,             \* cmd_scrape_all: what insert_daily returned
    inserted,       \* cmd_scrape_all counters
    skipped,
    failed,
    res,            \* history: per item of the current run, how it was counted
    ext,            \* history: per item of the current run, how scrape_url ended
    tries,          \* history: per item of the current run, calls of scrape_url
    seen,           \* history: the observation rows of the items earlier runs counted
                    \* as inserted or skipped, as stored when those runs ended
    wrote,          \* history: the rows given to the insert_daily calls that returned
                    \* true and were committed
    issued,         \* history: per table, the (identity, id) pairs the repositories returned
    last            \* history: the last repository call and its outcome

vars == <<db, conn, pc, items, idx, observed_on, fail_on_error, scraped, ok,
          inserted, skipped, failed, res, ext, tries, seen, wrote, issued, last>>

runvars == <<pc, items, idx, observed_on, fail_on_error, scraped, ok,
             inserted, skipped, failed, res, ext, tries, seen>>

-----------------------------------------------------------------------------
(* Strings *)

Whitespace == {" "}

RECURSIVE LStrip(_)
LStrip(s) == IF s # <<>> /\ Head(s) \in Whitespace THEN LStrip(Tail(s)) ELSE s

RECURSIVE RStrip(_)
RStrip(s) ==
    IF s # <<>> /\ s[Len(s)] \in Whitespace THEN RStrip(SubSeq(s, 1, Len(s) - 1)) ELSE s

\* str.strip()
Strip(s) == RStrip(LStrip(s))

LowerChar(c) ==
    CASE c = "H" -> "h"
      [] c = "T" -> "t"
      [] c = "A" -> "a"
      [] c = "B" -> "b"
      [] c = "L" -> "l"
      [] c = "S" -> "s"
      [] c = "X" -> "x"
      [] OTHER -> c

\* str.lower()
Lower(s) == [i \in 1..Len(s) |-> LowerChar(s[i])]

-----------------------------------------------------------------------------
(* Tables *)

EmptyDb ==
    [store |-> {}, canonical_item |-> {}, store_item |-> {}, price_observation |-> {}]

SetMax(S) == CHOOSE m \in S : \A x \in S : x <= m

\* id INTEGER PRIMARY KEY: the next rowid
NextId(rows) == IF rows = {} THEN 1 ELSE SetMax({r.id : r \in rows}) + 1

\* UNIQUE(name) of table store
store_conflict(rows, name) == \E r \in rows : r.name = name

\* UNIQUE(store_item_id, observed_on) of table price_observation
price_observation_conflict(rows, sid, day) ==
    \E r \in rows : r.store_item_id = sid /\ r.observed_on = day

\* schema.sql is executed on every command start; it creates what is missing
init_db(c) == c

-----------------------------------------------------------------------------
(* Results of a repository call *)

NoErr == "ok"

\* a call that returns v; a call that raises e (ids start at 1: 0 is no id)
Return(c, v) == [conn |-> c, ret |-> v, err |-> NoErr]
Raise(c, e) == [conn |-> c, ret |-> 0, err |-> e]

-----------------------------------------------------------------------------
(* StoreRepo *)

SelectStore(c, name) == {r \in c.store : r.name = name}

get_or_create_untrimmed(c, name) ==
    IF name = <<>> THEN Raise(c, "ValueError")
    ELSE LET c2 == IF store_conflict(c.store, name) THEN c
                   ELSE [c EXCEPT !.store = @ \cup {[id |-> NextId(c.store), name |-> name]}]
             row == SelectStore(c2, name)
         IN  IF row = {} THEN Raise(c2, "RuntimeError")
             ELSE Return(c2, (CHOOSE r \in row : TRUE).id)

get_or_create(c, name) ==
    LET n == Strip(name)
    IN  IF n = <<>> THEN Raise(c, "ValueError")
        ELSE LET c2 == IF store_conflict(c.store, n) THEN c
                       ELSE [c EXCEPT !.store = @ \cup {[id |-> NextId(c.store), name |-> n]}]
                 row == SelectStore(c2, n)
             IN  IF row = {} THEN Raise(c2, "RuntimeError")
                 ELSE Return(c2, (CHOOSE r \in row : TRUE).id)

-----------------------------------------------------------------------------
(* CanonicalItemRepo *)

SelectCanonical(c, family_key, size, unit) ==
    {r \in c.canonical_item : r.family_key = family_key /\ r.size = size /\ r.unit = unit}

upsert_keep_label(c, family_key, label, size, unit) ==
    LET f == Strip(family_key)
        l == Strip(label)
        u == Strip(unit)
    IN  IF f = <<>> \/ l = <<>> \/ size <= 0 \/ u = <<>> THEN Raise(c, "ValueError")
        ELSE LET row == SelectCanonical(c, f, size, u)
             IN  IF row # {} THEN Return(c, (CHOOSE r \in row : TRUE).id)
                 ELSE LET c2 == [c EXCEPT !.canonical_item = @ \cup
                                   {[id |-> NextId(c.canonical_item), family_key |-> f,
                                     label |-> l, size |-> size, unit |-> u]}]
                      IN  Return(c2, NextId(c.canonical_item))

upsert_by_family(c, family_key, label, size, unit) ==
    LET f == Strip(family_key)
        l == Strip(label)
        u == Strip(unit)
    IN  IF f = <<>> \/ l = <<>> \/ size <= 0 \/ u = <<>> THEN Raise(c, "ValueError")
        ELSE LET row == {r \in c.canonical_item : r.family_key = f}
             IN  IF row # {}
                 THEN LET cid == (CHOOSE r \in row : TRUE).id
                      IN  Return([c EXCEPT !.canonical_item =
                                    {IF r.id = cid
                                     THEN [r EXCEPT !.label = l, !.size = size, !.unit = u]
                                     ELSE r : r \in @}], cid)
                 ELSE LET c2 == [c EXCEPT !.canonical_item = @ \cup
                                   {[id |-> NextId(c.canonical_item), family_key |-> f,
                                     label |-> l, size |-> size, unit |-> u]}]
                      IN  Return(c2, NextId(c.canonical_item))

\* a size <= 0 is replaced by 1 instead of rejected
upsert_coerce_size(c, family_key, label, size, unit) ==
    LET f == Strip(family_key)
        l == Strip(label)
        u == Strip(unit)
        z == IF size <= 0 THEN 1 ELSE size
    IN  IF f = <<>> THEN Raise(c, "ValueError")
        ELSE IF l = <<>> THEN Raise(c, "ValueError")
        ELSE IF u = <<>> THEN Raise(c, "ValueError")
        ELSE LET row == SelectCanonical(c, f, z, u)
             IN  IF row # {}
                 THEN LET cid == (CHOOSE r \in row : TRUE).id
                      IN  Return([c EXCEPT !.canonical_item =
                                    {IF r.id = cid
                                     THEN [r EXCEPT !.label = l, !.size = z, !.unit = u]
                                     ELSE r : r \in @}], cid)
                 ELSE LET c2 == [c EXCEPT !.canonical_item = @ \cup
                                   {[id |-> NextId(c.canonical_item), family_key |-> f,
                                     label |-> l, size |-> z, unit |-> u]}]
                      IN  Return(c2, NextId(c.canonical_item))

upsert(c, family_key, label, size, unit) ==
    LET f == Strip(family_key)
        l == Strip(label)
        u == Strip(unit)
    IN  IF f = <<>> THEN Raise(c, "ValueError")
        ELSE IF l = <<>> THEN Raise(c, "ValueError")
        ELSE IF size <= 0 THEN Raise(c, "ValueError")
        ELSE IF u = <<>> THEN Raise(c, "ValueError")
        ELSE LET row == SelectCanonical(c, f, size, u)
             IN  IF row # {}
                 THEN LET cid == (CHOOSE r \in row : TRUE).id
                      IN  Return([c EXCEPT !.canonical_item =
                                    {IF r.id = cid
                                     THEN [r EXCEPT !.label = l, !.size = size, !.unit = u]
                                     ELSE r : r \in @}], cid)
                 ELSE LET c2 == [c EXCEPT !.canonical_item = @ \cup
                                   {[id |-> NextId(c.canonical_item), family_key |-> f,
                                     label |-> l, size |-> size, unit |-> u]}]
                          row2 == SelectCanonical(c2, f, size, u)
                      IN  IF row2 = {} THEN Raise(c2, "RuntimeError")
                          ELSE Return(c2, (CHOOSE r \in row2 : TRUE).id)

-----------------------------------------------------------------------------
(* ORDER BY on text columns: bytewise comparison *)

Chars == <<" ", "1", "2", "A", "B", "H", "L", "S", "X",
           "a", "b", "c", "d", "e", "f", "g", "h", "i", "l", "m", "o", "p",
           "r", "s", "t", "u", "v", "x", "y">>

Ord(c) == CHOOSE i \in 1..Len(Chars) : Chars[i] = c

RECURSIVE StrLess(_, _)
StrLess(a, b) ==
    IF a = <<>> THEN b # <<>>
    ELSE IF b = <<>> THEN FALSE
    ELSE IF Head(a) = Head(b) THEN StrLess(Tail(a), Tail(b))
    ELSE Ord(Head(a)) < Ord(Head(b))

-----------------------------------------------------------------------------
(* StoreItemRepo *)

SelectStoreItem(c, store_id, canonical_item_id) ==
    {r \in c.store_item : r.store_id = store_id /\ r.canonical_item_id = canonical_item_id}

\* INSERT OR IGNORE in place of ON CONFLICT ... DO UPDATE
upsert_mapping_ignore(c, store_id, canonical_item_id, url, scraper) ==
    LET u == Strip(url)
        s == Lower(Strip(scraper))
    IN  IF u = <<>> THEN Raise(c, "ValueError")
        ELSE IF s = <<>> THEN Raise(c, "ValueError")
        ELSE LET old == SelectStoreItem(c, store_id, canonical_item_id)
                 c2 == IF old # {}
                       THEN c
                       ELSE [c EXCEPT !.store_item = @ \cup
                               {[id |-> NextId(c.store_item), store_id |-> store_id,
                                 canonical_item_id |-> canonical_item_id,
                                 url |-> u, scraper |-> s]}]
                 row == SelectStoreItem(c2, store_id, canonical_item_id)
             IN  Return(c2, (CHOOSE r \in row : TRUE).id)

\* INSERT OR REPLACE: the row of the pair is deleted and a new row inserted
upsert_mapping_replace(c, store_id, canonical_item_id, url, scraper) ==
    LET u == Strip(url)
        s == Lower(Strip(scraper))
    IN  IF u = <<>> THEN Raise(c, "ValueError")
        ELSE IF s = <<>> THEN Raise(c, "ValueError")
        ELSE LET old == SelectStoreItem(c, store_id, canonical_item_id)
                 id == NextId(c.store_item)
             IN  Return([c EXCEPT !.store_item = (@ \ old) \cup
                           {[id |-> id, store_id |-> store_id,
                             canonical_item_id |-> canonical_item_id,
                             url |-> u, scraper |-> s]}],
                        id)

upsert_mapping(c, store_id, canonical_item_id, url, scraper) ==
    LET u == Strip(url)
        s == Lower(Strip(scraper))
    IN  IF u = <<>> THEN Raise(c, "ValueError")
        ELSE IF s = <<>> THEN Raise(c, "ValueError")
        ELSE LET old == SelectStoreItem(c, store_id, canonical_item_id)
                 c2 == IF old # {}
                       THEN [c EXCEPT !.store_item =
                               {IF r \in old THEN [r EXCEPT !.url = u, !.scraper = s] ELSE r
                                  : r \in @}]
                       ELSE [c EXCEPT !.store_item = @ \cup
                               {[id |-> NextId(c.store_item), store_id |-> store_id,
                                 canonical_item_id |-> canonical_item_id,
                                 url |-> u, scraper |-> s]}]
                 row == SelectStoreItem(c2, store_id, canonical_item_id)
             IN  IF row = {} THEN Raise(c2, "RuntimeError")
                 ELSE Return(c2, (CHOOSE r \in row : TRUE).id)

\* the rows of store_item JOIN store JOIN canonical_item
ScrapeRows(c) ==
    {[store_item_id |-> si.id, url |-> si.url, scraper |-> si.scraper,
      store_name |-> s.name, family_key |-> ci.family_key,
      canonical_label |-> ci.label, canonical_size |-> ci.size,
      canonical_unit |-> ci.unit] :
        <<si, s, ci>> \in {t \in c.store_item \X c.store \X c.canonical_item :
                             t[2].id = t[1].store_id /\ t[3].id = t[1].canonical_item_id}}

\* ORDER BY s.name, ci.family_key, ci.unit, ci.size
ScrapeBefore(x, y) ==
    IF x.store_name # y.store_name THEN StrLess(x.store_name, y.store_name)
    ELSE IF x.family_key # y.family_key THEN StrLess(x.family_key, y.family_key)
    ELSE IF x.canonical_unit # y.canonical_unit
         THEN StrLess(x.canonical_unit, y.canonical_unit)
    ELSE x.canonical_size < y.canonical_size

RECURSIVE OrderRows(_)
OrderRows(S) ==
    IF S = {} THEN <<>>
    ELSE LET m == CHOOSE x \in S : \A y \in S \ {x} : ScrapeBefore(x, y)
         IN  <<m>> \o OrderRows(S \ {m})

list_for_scrape(c) == OrderRows(ScrapeRows(c))

-----------------------------------------------------------------------------
(* ObservationRepo *)

ObservationRow(sid, day, price_cents, title_raw) ==
    [store_item_id |-> sid, observed_on |-> day,
     price_cents |-> price_cents, title_raw |-> title_raw]

\* INSERT OR REPLACE in place of INSERT OR IGNORE
insert_daily_replace(c, store_item_id, day, price_cents, title_raw) ==
    LET d == Strip(day)
    IN  IF d = <<>> THEN Raise(c, "ValueError")
        ELSE IF price_cents < 0 THEN Raise(c, "ValueError")
        ELSE Return([c EXCEPT !.price_observation =
                       {r \in @ : ~(r.store_item_id = store_item_id /\ r.observed_on = d)}
                       \cup {ObservationRow(store_item_id, d, price_cents, title_raw)}],
                    TRUE)

\* a row is ignored only when it repeats a stored row in every column
insert_daily_whole_row(c, store_item_id, day, price_cents, title_raw) ==
    LET d == Strip(day)
        row == ObservationRow(store_item_id, d, price_cents, title_raw)
    IN  IF d = <<>> THEN Raise(c, "ValueError")
        ELSE IF price_cents < 0 THEN Raise(c, "ValueError")
        ELSE IF row \in c.price_observation THEN Return(c, FALSE)
        ELSE Return([c EXCEPT !.price_observation = @ \cup {row}], TRUE)

\* the row is inserted without the checks of observed_on and price_cents
insert_daily_unchecked(c, store_item_id, day, price_cents, title_raw) ==
    LET d == Strip(day)
    IN  IF price_observation_conflict(c.price_observation, store_item_id, d)
        THEN Return(c, FALSE)
        ELSE Return([c EXCEPT !.price_observation = @ \cup
                       {ObservationRow(store_item_id, d, price_cents, title_raw)}],
                    TRUE)

insert_daily(c, store_item_id, day, price_cents, title_raw) ==
    LET d == Strip(day)
    IN  IF d = <<>> THEN Raise(c, "ValueError")
        ELSE IF price_cents < 0 THEN Raise(c, "ValueError")
        ELSE IF price_observation_conflict(c.price_observation, store_item_id, d)
             THEN Return(c, FALSE)
             ELSE Return([c EXCEPT !.price_observation = @ \cup
                            {ObservationRow(store_item_id, d, price_cents, title_raw)}],
                         TRUE)

-----------------------------------------------------------------------------
(* db.transaction: commit when the body returns, roll back when it raises *)

\* the statements of a body that raised are committed
transaction_commit_all(d, r) == r.conn

\* the durable tables after `with transaction(conn): body`, body having produced r
transaction(d, r) == IF r.err = NoErr THEN r.conn ELSE d

-----------------------------------------------------------------------------
(* app.py: scraper dispatch and track-url *)

Registered ==
    {<<"m", "e", "r", "c", "a", "t", "o", "r">>, <<"h", "o", "f", "e", "r">>,
     <<"l", "i", "d", "l">>, <<"s", "p", "a", "r">>}

\* what the extractor of a registered scraper may do with a URL: return a
\* non-negative price and a title, or raise an extraction error
Extractions ==
    {[err |-> NoErr, price_cents |-> 1, title_raw |-> "t1"],
     [err |-> NoErr, price_cents |-> 2, title_raw |-> "t2"],
     [err |-> "Exception", price_cents |-> 0, title_raw |-> ""]}

\* scrape_url: x is what the scraper's extractor does when it is called
scrape_url(scraper, x) ==
    IF Strip(Lower(scraper)) \in Registered THEN x
    ELSE [err |-> "SystemExit", price_cents |-> 0, title_raw |-> ""]

\* the body of cmd_track_url's transaction
track_url(c, a) ==
    LET r1 == get_or_create(c, a.store)
    IN  IF r1.err # NoErr THEN r1
        ELSE LET r2 == upsert(r1.conn, a.key, a.label, a.size, a.unit)
             IN  IF r2.err # NoErr THEN r2
                 ELSE upsert_mapping(r2.conn, r1.ret, r2.ret, a.url, a.scraper)

\* the durable tables after cmd_track_url
cmd_track_url(d, a) == transaction(d, track_url(init_db(d), a))

-----------------------------------------------------------------------------
(* Inputs of the catalog calls *)

\* most rows of canonical_item the catalog calls may create
MaxCanon == 2

StoreNameInputs == {<<>>, <<" ">>, <<"A">>, <<" ", "A", " ">>, <<"a">>}
FamilyInputs == {<<>>, <<"m">>, <<"m", " ">>}
LabelInputs == {<<" ">>, <<"x">>, <<" ", "y">>}
SizeInputs == {-1, 0, 1, 2}
UnitInputs == {<<" ">>, <<"l">>, <<" ", "g">>}

\* last: op, the call's outcome (ret, err) and what held before it: key is the
\* trimmed identity argument, val the trimmed value argument, hit whether a row
\* with that identity existed, chg whether that row's value differed from val,
\* was the id returned for key before (0 if none), before the table's row count;
\* valid tells whether the arguments pass the documented validation, and key
\* and val are kept only then
NoCall ==
    [op |-> "none", ret |-> 0, err |-> NoErr, valid |-> TRUE, key |-> <<>>, val |-> <<>>,
     hit |-> FALSE, chg |-> FALSE, was |-> 0, before |-> 0]

IssuedId(table, key) ==
    IF \E p \in issued[table] : p[1] = key
    THEN (CHOOSE p \in issued[table] : p[1] = key)[2]
    ELSE 0

NoIssued == [store |-> {}, canonical_item |-> {}, store_item |-> {}]

Issue(table, key, r) ==
    IF r.err = NoErr THEN [issued EXCEPT ![table] = @ \cup {<<key, r.ret>>}] ELSE issued

\* no scrape-all run exists: its locals have their initial values
NoRun ==
    /\ pc = "idle"
    /\ items = <<>>
    /\ idx = 1
    /\ observed_on = <<>>
    /\ fail_on_error = FALSE
    /\ scraped = <<>>
    /\ ok = FALSE
    /\ inserted = 0
    /\ skipped = 0
    /\ failed = 0
    /\ res = <<>>
    /\ ext = <<>>
    /\ tries = <<>>

InitRun == NoRun /\ seen = {}

\* a command ended and another process starts: the locals are gone
ResetRun ==
    /\ pc' = "idle"
    /\ items' = <<>>
    /\ idx' = 1
    /\ observed_on' = <<>>
    /\ fail_on_error' = FALSE
    /\ scraped' = <<>>
    /\ ok' = FALSE
    /\ inserted' = 0
    /\ skipped' = 0
    /\ failed' = 0
    /\ res' = <<>>
    /\ ext' = <<>>
    /\ tries' = <<>>

-----------------------------------------------------------------------------
(* Catalog calls, each in its own transaction on a fresh connection *)

GetOrCreateCall(name) ==
    /\ pc = "idle"
    /\ LET r == get_or_create(init_db(db), name)
       IN  /\ db' = transaction(db, r)
           /\ conn' = db'
           /\ issued' = Issue("store", Strip(name), r)
           /\ last' = [op |-> "get_or_create", ret |-> r.ret, err |-> r.err,
                       valid |-> Strip(name) # <<>>,
                       key |-> Strip(name), val |-> <<>>,
                       hit |-> \E x \in db.store : x.name = Strip(name),
                       chg |-> FALSE,
                       was |-> IssuedId("store", Strip(name)),
                       before |-> Cardinality(db.store)]
    /\ UNCHANGED <<runvars, wrote>>

CanonKey(family_key, size, unit) == <<Strip(family_key), size, Strip(unit)>>

RowKey(r) == <<r.family_key, r.size, r.unit>>

UpsertCall(family_key, label, size, unit) ==
    /\ pc = "idle"
    /\ LET r == upsert(init_db(db), family_key, label, size, unit)
           key == CanonKey(family_key, size, unit)
           old == {x \in db.canonical_item : RowKey(x) = key}
           valid == /\ Strip(family_key) # <<>>
                    /\ Strip(label) # <<>>
                    /\ Strip(unit) # <<>>
                    /\ size > 0
       IN  /\ Cardinality(r.conn.canonical_item) <= MaxCanon
           /\ db' = transaction(db, r)
           /\ conn' = db'
           /\ issued' = Issue("canonical_item", key, r)
           /\ last' = [op |-> "upsert", ret |-> r.ret, err |-> r.err,
                       valid |-> valid,
                       key |-> IF valid THEN key ELSE <<>>,
                       val |-> IF valid THEN Strip(label) ELSE <<>>,
                       hit |-> old # {},
                       chg |-> \E x \in old : x.label # Strip(label),
                       was |-> IssuedId("canonical_item", key),
                       before |-> Cardinality(db.canonical_item)]
    /\ UNCHANGED <<runvars, wrote>>

InitCatalog ==
    /\ db = EmptyDb
    /\ conn = EmptyDb
    /\ issued = NoIssued
    /\ last = NoCall
    /\ wrote = {}
    /\ InitRun

NextCatalog ==
    \/ \E n \in StoreNameInputs : GetOrCreateCall(n)
    \/ \E f \in FamilyInputs, l \in LabelInputs, s \in SizeInputs, u \in UnitInputs :
          UpsertCall(f, l, s, u)

SpecCatalog == InitCatalog /\ [][NextCatalog]_vars

-----------------------------------------------------------------------------
(* StoreItemRepo.upsert_mapping calls, each in its own transaction, on a       *)
(* catalog of two stores and two canonical items                               *)

\* most rows of store_item the mapping calls may create
MaxMapped == 3

MappingCatalog ==
    LET c1 == get_or_create(EmptyDb, <<"A">>).conn
        c2 == get_or_create(c1, <<"B">>).conn
        c3 == upsert(c2, <<"m">>, <<"x">>, 1, <<"l">>).conn
    IN  upsert(c3, <<"m">>, <<"y">>, 2, <<"l">>).conn

UrlInputs == {<<"u">>, <<" ", "v">>, <<" ">>}
ScraperInputs == {<<" ", "L", "i", "d", "l">>, <<"x", " ">>, <<>>}

UpsertMappingCall(store_id, canonical_item_id, url, scraper) ==
    /\ pc = "idle"
    /\ store_id \in {x.id : x \in db.store}
    /\ canonical_item_id \in {x.id : x \in db.canonical_item}
    /\ LET r == upsert_mapping(init_db(db), store_id, canonical_item_id, url, scraper)
           key == <<store_id, canonical_item_id>>
           val == <<Strip(url), Lower(Strip(scraper))>>
           old == SelectStoreItem(db, store_id, canonical_item_id)
           valid == Strip(url) # <<>> /\ Strip(scraper) # <<>>
       IN  /\ Cardinality(r.conn.store_item) <= MaxMapped
           /\ db' = transaction(db, r)
           /\ conn' = db'
           /\ issued' = Issue("store_item", key, r)
           /\ last' = [op |-> "upsert_mapping", ret |-> r.ret, err |-> r.err,
                       valid |-> valid,
                       key |-> IF valid THEN key ELSE <<>>,
                       val |-> IF valid THEN val ELSE <<>>,
                       hit |-> old # {},
                       chg |-> \E x \in old : <<x.url, x.scraper>> # val,
                       was |-> IssuedId("store_item", key),
                       before |-> Cardinality(db.store_item)]
    /\ UNCHANGED <<runvars, wrote>>

InitMapping ==
    /\ db = MappingCatalog
    /\ conn = db
    /\ issued = NoIssued
    /\ last = NoCall
    /\ wrote = {}
    /\ InitRun

NextMapping ==
    \E sid \in 1..2, cid \in 1..2, url \in UrlInputs, scraper \in ScraperInputs :
        UpsertMappingCall(sid, cid, url, scraper)

SpecMapping == InitMapping /\ [][NextMapping]_vars

-----------------------------------------------------------------------------
(* Unit prices and trends.  A Python float that is a quotient is kept as the   *)
(* exact fraction <<numerator, denominator>>, denominator > 0.                 *)

RatEq(a, b) == a[1] * b[2] = b[1] * a[2]
RatLess(a, b) == a[1] * b[2] < b[1] * a[2]
RatLeq(a, b) == a[1] * b[2] <= b[1] * a[2]

\* return None
None == [none |-> TRUE, val |-> <<0, 1>>, unit |-> <<>>]

\* return value, unit
UnitPrice(n, d, unit) == [none |-> FALSE, val |-> <<n, d>>, unit |-> unit]

\* ml is taken for l: the size is not divided by 1000
compute_normalized_unit_price_ml_as_l(price_cents, size, unit) ==
    IF size <= 0 THEN None
    ELSE LET u == Strip(Lower(unit))
         IN  IF u = <<"l">> THEN UnitPrice(price_cents, 100 * size, <<"l">>)
             ELSE IF u = <<"m", "l">> THEN UnitPrice(price_cents, 100 * size, <<"l">>)
             ELSE IF u = <<"k", "g">> THEN UnitPrice(price_cents, 100 * size, <<"k", "g">>)
             ELSE IF u = <<"g">> THEN UnitPrice(price_cents * 10, size, <<"k", "g">>)
             ELSE IF u \in {<<"p", "c", "s">>, <<"k", "o", "s">>}
                  THEN UnitPrice(price_cents, 100 * size, <<"p", "c", "s">>)
             ELSE None

\* eur = price_cents / 100; eur / size is price_cents / (100 * size) and
\* eur / (size / 1000) is price_cents * 10 / size
compute_normalized_unit_price(price_cents, size, unit) ==
    IF size <= 0 THEN None
    ELSE LET u == Strip(Lower(unit))
         IN  IF u = <<"l">> THEN UnitPrice(price_cents, 100 * size, <<"l">>)
             ELSE IF u = <<"m", "l">> THEN UnitPrice(price_cents * 10, size, <<"l">>)
             ELSE IF u = <<"k", "g">> THEN UnitPrice(price_cents, 100 * size, <<"k", "g">>)
             ELSE IF u = <<"g">> THEN UnitPrice(price_cents * 10, size, <<"k", "g">>)
             ELSE IF u \in {<<"p", "c", "s">>, <<"k", "o", "s">>}
                  THEN UnitPrice(price_cents, 100 * size, <<"p", "c", "s">>)
             ELSE None

\* return arrow, delta, pct
Trend(arrow, delta, pct) == [err |-> NoErr, arrow |-> arrow, delta |-> delta, pct |-> pct]

Arrow(delta) == IF delta > 0 THEN "up" ELSE IF delta < 0 THEN "down" ELSE "flat"

\* delta / prev_cents with prev_cents = 0
ZeroDivision == [err |-> "ZeroDivisionError", arrow |-> "", delta |-> 0, pct |-> <<0, 1>>]

\* the percentage is computed without the prev_cents > 0 test
trend_unguarded(prev_cents, last_cents) ==
    LET delta == last_cents - prev_cents
    IN  IF prev_cents = 0 THEN ZeroDivision
        ELSE Trend(Arrow(delta), delta, <<delta * 100, prev_cents>>)

\* app.py _trend
_trend(prev_cents, last_cents) ==
    LET delta == last_cents - prev_cents
    IN  Trend(Arrow(delta), delta,
              IF prev_cents > 0 THEN <<delta * 100, prev_cents>> ELSE <<0, 1>>)

\* ObservationRepo.trend
trend(prev_cents, last_cents) ==
    LET delta == last_cents - prev_cents
        pct == IF prev_cents > 0 THEN <<delta * 100, prev_cents>> ELSE <<0, 1>>
    IN  Trend(Arrow(delta), delta, pct)

\* greatest price the trend calls are given
MaxCents == 6

PriceInputs == {0, 109, 199}
PackSizeInputs == {-1, 0, 1, 2, 500}
PackUnitInputs ==
    {<<"l">>, <<"L">>, <<" ", "l">>, <<"m", "l">>, <<"k", "g">>, <<"g">>,
     <<"p", "c", "s">>, <<"k", "o", "s">>, <<"b", "o", "x">>, <<>>}

NormalizeCall(price_cents, size, unit) ==
    /\ pc = "idle"
    /\ last' = [NoCall EXCEPT !.op = "normalize",
                              !.key = <<price_cents, size, unit>>,
                              !.ret = compute_normalized_unit_price(price_cents, size, unit)]
    /\ UNCHANGED <<db, conn, issued, wrote, runvars>>

TrendCall(prev_cents, last_cents) ==
    /\ pc = "idle"
    /\ last' = [NoCall EXCEPT !.op = "trend",
                              !.key = <<prev_cents, last_cents>>,
                              !.ret = <<_trend(prev_cents, last_cents),
                                        trend(prev_cents, last_cents)>>]
    /\ UNCHANGED <<db, conn, issued, wrote, runvars>>

InitPure == InitCatalog

NextPure ==
    \/ \E p \in PriceInputs, s \in PackSizeInputs, u \in PackUnitInputs : NormalizeCall(p, s, u)
    \/ \E a \in 0..MaxCents, b \in 0..MaxCents : TrendCall(a, b)

SpecPure == InitPure /\ [][NextPure]_vars

-----------------------------------------------------------------------------
(* The shopping list file: _load_shopping_list normalizes its entries *)

\* the value of "qty" in an entry of the JSON file: t is "absent", "null",
\* "int" (the number n) or "str" (the characters s)
Q(t, n, s) == [t |-> t, n |-> n, s |-> s]

DigitChars == <<"0", "1", "2", "3", "4", "5", "6", "7", "8", "9">>

RECURSIVE DecimalVal(_)
DecimalVal(ds) ==
    IF ds = <<>> THEN 0
    ELSE 10 * DecimalVal(SubSeq(ds, 1, Len(ds) - 1))
            + (CHOOSE i \in DOMAIN DigitChars : DigitChars[i] = ds[Len(ds)]) - 1

\* int(x) of a JSON value: the integer itself, the decimal literal a string
\* holds (blanks around it and a sign allowed), ValueError for any other
\* string, TypeError for null
int(q) ==
    IF q.t = "int" THEN [err |-> NoErr, v |-> q.n]
    ELSE IF q.t = "str"
    THEN LET x == Strip(q.s)
             signed == x # <<>> /\ Head(x) \in {"-", "+"}
             ds == IF signed THEN Tail(x) ELSE x
         IN  IF ds = <<>> \/ \E i \in DOMAIN ds : \A k \in DOMAIN DigitChars : DigitChars[k] # ds[i]
             THEN [err |-> "ValueError", v |-> 0]
             ELSE [err |-> NoErr,
                   v |-> IF signed /\ Head(x) = "-" THEN 0 - DecimalVal(ds)
                         ELSE DecimalVal(ds)]
    ELSE [err |-> "TypeError", v |-> 0]

\* qty = it.get("qty", 1); try: qty = int(qty) except Exception: qty = 1
qty_of(it) ==
    LET r == int(IF it.qty.t = "absent" THEN Q("int", 1, <<>>) ELSE it.qty)
    IN  IF r.err # NoErr THEN 1 ELSE r.v

\* the loop over data["items"]
RECURSIVE norm_items(_)
norm_items(raw) ==
    IF raw = <<>> THEN <<>>
    ELSE LET it == Head(raw)
             key == Strip(it.key)
             qty == qty_of(it)
         IN  IF ~it.dict \/ key = <<>> \/ qty <= 0 THEN norm_items(Tail(raw))
             ELSE <<[key |-> key, qty |-> qty]>> \o norm_items(Tail(raw))

\* the file at the path: absent, or JSON that is an object or not, whose
\* "items" is missing ("none"), a list or another value
File(exists, object, kind, list) ==
    [exists |-> exists, object |-> object, items |-> kind, list |-> list]

_load_shopping_list(path, file) ==
    IF Strip(path) = <<>> THEN [err |-> "ValueError", items |-> <<>>]
    ELSE IF ~file.exists THEN [err |-> NoErr, items |-> <<>>]
    ELSE IF ~file.object THEN [err |-> "ValueError", items |-> <<>>]
    ELSE IF file.items = "none" THEN [err |-> NoErr, items |-> norm_items(<<>>)]
    ELSE IF file.items # "list" THEN [err |-> "ValueError", items |-> <<>>]
    ELSE [err |-> NoErr, items |-> norm_items(file.list)]

\* greatest number of entries in a shopping list file
MaxEntries == 2

EntryInputs ==
    {[dict |-> TRUE, key |-> k, qty |-> q] :
        k \in {<<"m">>, <<" ", "e">>, <<" ">>},
        q \in {Q("absent", 0, <<>>), Q("null", 0, <<>>),
               Q("int", -1, <<>>), Q("int", 0, <<>>), Q("int", 2, <<>>),
               Q("str", 0, <<"2">>), Q("str", 0, <<" ", "1", "0">>),
               Q("str", 0, <<"-", "1">>), Q("str", 0, <<"a">>)}}
        \cup {[dict |-> FALSE, key |-> <<>>, qty |-> Q("absent", 0, <<>>)]}

FileInputs ==
    {File(FALSE, FALSE, "none", <<>>), File(TRUE, FALSE, "none", <<>>),
     File(TRUE, TRUE, "none", <<>>), File(TRUE, TRUE, "other", <<>>)}
        \cup {File(TRUE, TRUE, "list", raw) :
                raw \in UNION {[1..n -> EntryInputs] : n \in 0..MaxEntries}}

\* list show: the file is loaded and printed
LoadListCall(path, file) ==
    LET r == _load_shopping_list(path, file)
    IN  /\ pc = "idle"
        /\ last' = [NoCall EXCEPT !.op = "load_list", !.err = r.err,
                                  !.key = [path |-> path, file |-> file],
                                  !.ret = r.items]
        /\ UNCHANGED <<db, conn, issued, wrote, runvars>>

NextList ==
    \E path \in {<<"p">>, <<" ">>}, file \in FileInputs : LoadListCall(path, file)

SpecList == InitCatalog /\ [][NextList]_vars

-----------------------------------------------------------------------------
(* scrapers/spar.py: the price of a product from the hits of the search API *)

\* s.rstrip("/")
RECURSIVE RStripSlash(_)
RStripSlash(s) ==
    IF s # <<>> /\ s[Len(s)] = "/" THEN RStripSlash(SubSeq(s, 1, Len(s) - 1)) ELSE s

\* \d+ matches the whole of s
IsDigits(s) ==
    s # <<>> /\ \A i \in DOMAIN s : \E k \in DOMAIN DigitChars : DigitChars[k] = s[i]

\* the digits that -(\d+)$ finds in the last segment of the path, <<>> for
\* None; path is urlparse(product_url).path
_extract_code_from_url(path) ==
    LET p == RStripSlash(path)
        slashes == {i \in DOMAIN p : p[i] = "/"}
        from == IF slashes = {} THEN 1
                ELSE (CHOOSE i \in slashes : \A j \in slashes : j <= i) + 1
        seg == SubSeq(p, from, Len(p))
        at == {i \in DOMAIN seg : seg[i] = "-" /\ IsDigits(SubSeq(seg, i + 1, Len(seg)))}
    IN  IF at = {} THEN <<>>
        ELSE SubSeq(seg, (CHOOSE i \in at : \A j \in at : i <= j) + 1, Len(seg))

RECURSIVE Pow10(_)
Pow10(n) == IF n <= 0 THEN 1 ELSE 10 * Pow10(n - 1)

\* Decimal(...) of the text of best-price: "1.234,56" becomes "1234.56", any
\* other comma a point; the number is (-1)^neg * units / 10^scale, ok is
\* FALSE where Decimal raises InvalidOperation
_to_decimal_from_any(x) ==
    LET s == Strip(x)
        NotPoint(c) == c # "."
        head == SubSeq(s, 1, Len(s) - 3)
        thousands ==
            /\ Len(s) >= 8
            /\ s[Len(s) - 2] = ","
            /\ IsDigits(SubSeq(s, Len(s) - 1, Len(s)))
            /\ \E k \in 1..3 :
                  /\ Len(head) > k
                  /\ (Len(head) - k) % 4 = 0
                  /\ \A i \in DOMAIN head :
                        IF i > k /\ (i - k) % 4 = 1 THEN head[i] = "."
                        ELSE IsDigits(<<head[i]>>)
        t == IF thousands THEN SelectSeq(s, NotPoint) ELSE s
        y == [i \in DOMAIN t |-> IF t[i] = "," THEN "." ELSE t[i]]
        signed == y # <<>> /\ Head(y) \in {"-", "+"}
        body == IF signed THEN Tail(y) ELSE y
        dots == {i \in DOMAIN body : body[i] = "."}
        digits == SelectSeq(body, NotPoint)
        number == Cardinality(dots) <= 1 /\ IsDigits(digits)
    IN  [ok |-> number,
         neg |-> signed /\ Head(y) = "-",
         units |-> IF number THEN DecimalVal(digits) ELSE 0,
         scale |-> IF number /\ dots # {} THEN Len(body) - (CHOOSE i \in dots : TRUE) ELSE 0]

\* int((d * 100).quantize(Decimal("1"))): rounded half to even; ValueError
\* when the cents are negative
_eur_to_cents(d) ==
    LET m == Pow10(d.scale - 2)
        q == d.units \div m
        r == d.units % m
        mag == IF d.scale <= 2 THEN d.units * Pow10(2 - d.scale)
               ELSE IF 2 * r > m \/ (2 * r = m /\ q % 2 = 1) THEN q + 1 ELSE q
        cents == IF d.neg THEN 0 - mag ELSE mag
    IN  IF cents < 0 THEN [err |-> "ValueError", cents |-> 0]
        ELSE [err |-> NoErr, cents |-> cents]

\* an element of data["hits"]: dict tells whether it is a JSON object, id is
\* str(h.get("id")), mv whether masterValues is an object, url, price and
\* title are the url, best-price and title of masterValues, <<>> when missing
Hit(dict, id, mv, url, price, title) ==
    [dict |-> dict, id |-> id, mv |-> mv, url |-> url, price |-> price, title |-> title]

\* the masterValues.url match is tried before the id match
best_hit_url_first(hits, code, wanted_path) ==
    LET by_id == {i \in DOMAIN hits : hits[i].dict /\ hits[i].id = code}
        by_url == {i \in DOMAIN hits :
                     /\ hits[i].dict
                     /\ hits[i].mv
                     /\ hits[i].url # <<>>
                     /\ RStripSlash(hits[i].url) = wanted_path}
        First(S) == CHOOSE i \in S : \A j \in S : i <= j
    IN  IF by_url # {} THEN hits[First(by_url)]
        ELSE IF by_id # {} THEN hits[First(by_id)]
        ELSE hits[1]

\* best_hit: the exact id match, else the masterValues.url match, else hits[0]
best_hit(hits, code, wanted_path) ==
    LET by_id == {i \in DOMAIN hits : hits[i].dict /\ hits[i].id = code}
        by_url == {i \in DOMAIN hits :
                     /\ hits[i].dict
                     /\ hits[i].mv
                     /\ hits[i].url # <<>>
                     /\ RStripSlash(hits[i].url) = wanted_path}
        First(S) == CHOOSE i \in S : \A j \in S : i <= j
    IN  IF by_id # {} THEN hits[First(by_id)]
        ELSE IF by_url # {} THEN hits[First(by_url)]
        ELSE hits[1]

Failed(e) == [err |-> e, price_cents |-> 0, title_raw |-> <<>>]

\* _fetch_via_search_api: hits is what the search API answers for the code
_fetch_via_search_api(path, hits) ==
    LET code == _extract_code_from_url(path)
        h == best_hit(hits, code, RStripSlash(path))
        price_dec == _to_decimal_from_any(h.price)
        cents == _eur_to_cents(price_dec)
    IN  IF code = <<>> THEN Failed("ValueError")
        ELSE IF hits = <<>> THEN Failed("ValueError")
        ELSE IF ~h.dict THEN Failed("AttributeError")
        ELSE IF ~h.mv THEN Failed("ValueError")
        ELSE IF h.price = <<>> THEN Failed("ValueError")
        ELSE IF ~price_dec.ok THEN Failed("InvalidOperation")
        ELSE IF cents.err # NoErr THEN Failed(cents.err)
        ELSE [err |-> NoErr, price_cents |-> cents.cents,
              title_raw |-> IF h.title = <<>>
                            THEN <<"(", "u", "n", "k", "n", "o", "w", "n", " ",
                                   "t", "i", "t", "l", "e", ")">>
                            ELSE h.title]

\* most hits in an answer of the search API
MaxHits == 2

ProductPaths ==
    {<<"/", "p", "/", "a", "-", "1", "2">>, <<"/", "p", "/", "a", "1", "2">>,
     <<"/", "p", "/", "b", "-", "7", "/">>}

HitInputs ==
    {Hit(TRUE, <<"1", "2">>, TRUE, <<"/", "x">>, <<"1", "1", ".", "9", "9">>, <<"t">>),
     Hit(TRUE, <<"3">>, TRUE, <<"/", "p", "/", "a", "-", "1", "2", "/">>,
         <<"1", ".", "0", "0", "5">>, <<>>),
     Hit(TRUE, <<"3">>, TRUE, <<"/", "p", "/", "b", "-", "7">>,
         <<"1", ".", "2", "3", "4", ",", "5", "6">>, <<"v">>),
     Hit(TRUE, <<"7">>, TRUE, <<>>, <<"-", "1">>, <<"u">>),
     Hit(TRUE, <<"3">>, TRUE, <<"/", "x">>, <<"a">>, <<"w">>),
     Hit(TRUE, <<"1", "2">>, FALSE, <<>>, <<>>, <<>>),
     Hit(TRUE, <<"7">>, TRUE, <<"/", "x">>, <<>>, <<"t">>),
     Hit(FALSE, <<>>, FALSE, <<>>, <<>>, <<>>)}

\* spar.scrape(url): the search API answers with hits
SparScrapeCall(path, hits) ==
    LET r == _fetch_via_search_api(path, hits)
    IN  /\ pc = "idle"
        /\ last' = [NoCall EXCEPT !.op = "spar", !.err = r.err,
                                  !.key = [path |-> path, hits |-> hits],
                                  !.ret = [price_cents |-> r.price_cents,
                                           title_raw |-> r.title_raw]]
        /\ UNCHANGED <<db, conn, issued, wrote, runvars>>

NextSpar ==
    \E path \in ProductPaths, hits \in UNION {[1..n -> HitInputs] : n \in 0..MaxHits} :
        SparScrapeCall(path, hits)

SpecSpar == InitCatalog /\ [][NextSpar]_vars

-----------------------------------------------------------------------------
(* cmd_cheapest and cmd_compare_list: what they select and rank *)

\* SELECT MAX(observed_on) FROM price_observation WHERE store_item_id = si.id
MaxObservedOn(c, sid) ==
    LET days == {r.observed_on : r \in {x \in c.price_observation : x.store_item_id = sid}}
    IN  CHOOSE d \in days : \A e \in days : ~StrLess(d, e)

\* LEFT JOIN price_observation po ON ... : the latest observation, if any
LatestObservation(c, sid) ==
    IF \E x \in c.price_observation : x.store_item_id = sid
    THEN {x \in c.price_observation :
            x.store_item_id = sid /\ x.observed_on = MaxObservedOn(c, sid)}
    ELSE {}

\* store_item JOIN store JOIN canonical_item LEFT JOIN price_observation
\* WHERE ci.family_key = ?; price_cents is NULL when observed is FALSE
FamilyRows(c, key) ==
    {LET po == LatestObservation(c, t[1].id)
     IN  [store_item_id |-> t[1].id, store_id |-> t[2].id, store_name |-> t[2].name,
          url |-> t[1].url, label |-> t[3].label, size |-> t[3].size, unit |-> t[3].unit,
          observed |-> po # {},
          observed_on |-> IF po = {} THEN <<>> ELSE (CHOOSE x \in po : TRUE).observed_on,
          price_cents |-> IF po = {} THEN 0 ELSE (CHOOSE x \in po : TRUE).price_cents] :
        t \in {u \in c.store_item \X c.store \X c.canonical_item :
                 /\ u[2].id = u[1].store_id
                 /\ u[3].id = u[1].canonical_item_id
                 /\ u[3].family_key = key}}

\* ORDER BY s.name ASC, ci.unit ASC, ci.size ASC
CheapestBefore(x, y) ==
    IF x.store_name # y.store_name THEN StrLess(x.store_name, y.store_name)
    ELSE IF x.unit # y.unit THEN StrLess(x.unit, y.unit)
    ELSE x.size < y.size

RECURSIVE OrderCheapestRows(_)
OrderCheapestRows(S) ==
    IF S = {} THEN <<>>
    ELSE LET m == CHOOSE x \in S : \A y \in S \ {x} : CheapestBefore(x, y)
         IN  <<m>> \o OrderCheapestRows(S \ {m})

\* the option a row with a price becomes: norm_val, norm_unit are the
\* normalized price and unit, or the pack price in euro and the pack's unit
Option(r) ==
    LET norm == compute_normalized_unit_price(r.price_cents, r.size, r.unit)
    IN  [store_item_id |-> r.store_item_id, store_id |-> r.store_id,
         store |-> r.store_name, size |-> r.size, unit |-> r.unit, label |-> r.label,
         price_cents |-> r.price_cents, observed_on |-> r.observed_on, url |-> r.url,
         normalized |-> ~norm.none,
         norm_val |-> IF norm.none THEN <<r.price_cents, 100>> ELSE norm.val,
         norm_unit |-> IF norm.none THEN r.unit ELSE norm.unit]

RECURSIVE MapOption(_)
MapOption(rows) ==
    IF rows = <<>> THEN <<>> ELSE <<Option(Head(rows))>> \o MapOption(Tail(rows))

\* x goes before the first option that is not below it
RECURSIVE InsertByPrice(_, _)
InsertByPrice(x, sorted) ==
    IF sorted = <<>> THEN <<x>>
    ELSE IF x.price_cents <= Head(sorted).price_cents THEN <<x>> \o sorted
    ELSE <<Head(sorted)>> \o InsertByPrice(x, Tail(sorted))

\* the options sorted by the pack price
RECURSIVE sort_observed_by_price(_)
sort_observed_by_price(observed) ==
    IF observed = <<>> THEN <<>>
    ELSE InsertByPrice(Head(observed), sort_observed_by_price(Tail(observed)))

RECURSIVE InsertByNormVal(_, _)
InsertByNormVal(x, sorted) ==
    IF sorted = <<>> THEN <<x>>
    ELSE IF RatLeq(x.norm_val, Head(sorted).norm_val) THEN <<x>> \o sorted
    ELSE <<Head(sorted)>> \o InsertByNormVal(x, Tail(sorted))

\* observed.sort(key=lambda x: x["norm_val"]): a stable sort
RECURSIVE sort_observed(_)
sort_observed(observed) ==
    IF observed = <<>> THEN <<>>
    ELSE InsertByNormVal(Head(observed), sort_observed(Tail(observed)))

IsObserved(r) == r.observed
IsMissing(r) == ~r.observed

\* the rows without a price are not kept
missing_dropped(rows) == <<>>

\* missing.append(f"{store} {size:g}{unit}") for the rows without a price
missing_of(rows) ==
    LET m == SelectSeq(rows, IsMissing)
    IN  [i \in 1..Len(m) |-> [store |-> m[i].store_name, size |-> m[i].size,
                               unit |-> m[i].unit]]

\* what cmd_cheapest found: tracked is FALSE when no store item of the family
\* exists; observed is sorted, and its first option is reported as the cheapest
cmd_cheapest(c, key) ==
    LET rows == OrderCheapestRows(FamilyRows(c, key))
        observed == sort_observed(MapOption(SelectSeq(rows, IsObserved)))
    IN  [tracked |-> rows # <<>>,
         observed |-> observed,
         missing |-> missing_of(rows),
         best |-> IF observed = <<>> THEN <<>> ELSE <<observed[1]>>]

\* the valid entries of the shopping list: key trimmed and not empty, qty > 0
RECURSIVE want_of(_)
want_of(list_items) ==
    IF list_items = <<>> THEN <<>>
    ELSE LET key == Strip(Head(list_items)[1])
             qty == Head(list_items)[2]
         IN  IF key = <<>> \/ qty <= 0 THEN want_of(Tail(list_items))
             ELSE <<(<<key, qty>>)>> \o want_of(Tail(list_items))

\* SELECT id, name FROM store ORDER BY name
RECURSIVE OrderStores(_)
OrderStores(S) ==
    IF S = {} THEN <<>>
    ELSE LET m == CHOOSE x \in S : \A y \in S \ {x} : StrLess(x.name, y.name)
         IN  <<m>> \o OrderStores(S \ {m})

\* the rows of the SELECT without ORDER BY, which come in an order the
\* statement does not fix: by ascending or by descending store item id
RECURSIVE RowOrder(_, _)
RowOrder(S, rev) ==
    IF S = {} THEN <<>>
    ELSE LET m == CHOOSE x \in S : \A y \in S \ {x} :
                      IF rev THEN x.store_item_id > y.store_item_id
                      ELSE x.store_item_id < y.store_item_id
         IN  <<m>> \o RowOrder(S \ {m}, rev)

\* options_by_store[sid] for one family
options_by_store(c, family_key, sid, rev) ==
    LET Keep(r) == r.observed /\ r.store_id = sid
    IN  MapOption(SelectSeq(RowOrder(FamilyRows(c, family_key), rev), Keep))

\* the first option with the lowest pack price
best_option_by_price(opts) ==
    opts[CHOOSE i \in 1..Len(opts) :
            /\ \A j \in 1..Len(opts) : opts[i].price_cents <= opts[j].price_cents
            /\ \A j \in 1..(i - 1) : opts[j].price_cents > opts[i].price_cents]

\* min(opts, key=lambda x: x["norm_val"]): the first option with the least key
best_option(opts) ==
    opts[CHOOSE i \in 1..Len(opts) :
            /\ \A j \in 1..Len(opts) : RatLeq(opts[i].norm_val, opts[j].norm_val)
            /\ \A j \in 1..(i - 1) : RatLess(opts[i].norm_val, opts[j].norm_val)]

RECURSIVE SumTotals(_)
SumTotals(lines) ==
    IF lines = <<>> THEN 0 ELSE Head(lines).line_total + SumTotals(Tail(lines))

\* per_store_lines, per_store_missing and per_store_total_cents of one store
\* after the loop over want
RECURSIVE store_lines(_, _, _, _)
store_lines(c, sid, want, rev) ==
    IF want = <<>> THEN <<>>
    ELSE LET opts == options_by_store(c, Head(want)[1], sid, rev)
             rest == store_lines(c, sid, Tail(want), rev)
         IN  IF opts = <<>> THEN rest
             ELSE <<[family_key |-> Head(want)[1], qty |-> Head(want)[2],
                     best |-> best_option(opts),
                     line_total |-> best_option(opts).price_cents * Head(want)[2]]>>
                  \o rest

RECURSIVE store_missing(_, _, _, _)
store_missing(c, sid, want, rev) ==
    IF want = <<>> THEN <<>>
    ELSE LET opts == options_by_store(c, Head(want)[1], sid, rev)
             rest == store_missing(c, sid, Tail(want), rev)
         IN  IF opts = <<>> THEN <<Head(want)>> \o rest ELSE rest

per_store(c, stores, want, rev) ==
    [i \in 1..Len(stores) |->
        LET lines == store_lines(c, stores[i].id, want, rev)
        IN  [store_id |-> stores[i].id, store_name |-> stores[i].name,
             lines |-> lines,
             missing |-> store_missing(c, stores[i].id, want, rev),
             total_cents |-> SumTotals(lines)]]

\* the total decides first
sort_key_total_first(e) == <<e.total_cents, Len(e.missing)>>

\* sort_key: (missing_count, per_store_total_cents[sid])
sort_key(e) == <<Len(e.missing), e.total_cents>>

\* tuples compare lexicographically
KeyLeq(a, b) == a[1] < b[1] \/ (a[1] = b[1] /\ a[2] <= b[2])

RECURSIVE InsertByKey(_, _)
InsertByKey(x, sorted) ==
    IF sorted = <<>> THEN <<x>>
    ELSE IF KeyLeq(sort_key(x), sort_key(Head(sorted))) THEN <<x>> \o sorted
    ELSE <<Head(sorted)>> \o InsertByKey(x, Tail(sorted))

\* sorted(stores, key=...): a stable sort
RECURSIVE sorted_stores(_)
sorted_stores(entries) ==
    IF entries = <<>> THEN <<>>
    ELSE InsertByKey(Head(entries), sorted_stores(Tail(entries)))

Complete(e) == e.missing = <<>>

\* only the stores that miss nothing are reported
cmd_compare_list_complete_only(c, list_items, rev) ==
    LET want == want_of(list_items)
        stores == OrderStores(c.store)
    IN  [want |-> want,
         stores |-> IF want = <<>> THEN <<>>
                    ELSE sorted_stores(SelectSeq(per_store(c, stores, want, rev), Complete))]

\* what cmd_compare_list prints: the valid entries and, per store in the
\* printed order, its lines, its missing families and its total; nothing per
\* store when the list has no valid entry or the database has no store
cmd_compare_list(c, list_items, rev) ==
    LET want == want_of(list_items)
        stores == OrderStores(c.store)
    IN  [want |-> want,
         stores |-> IF want = <<>> THEN <<>>
                    ELSE sorted_stores(per_store(c, stores, want, rev))]

-----------------------------------------------------------------------------
(* cmd_history: the history of a family and its trend report *)

\* price_observation JOIN store_item JOIN store JOIN canonical_item
\* WHERE ci.family_key = ?
HistoryRows(c, key) ==
    {[store_name |-> t[3].name, label |-> t[4].label, size |-> t[4].size,
      unit |-> t[4].unit, observed_on |-> t[1].observed_on,
      price_cents |-> t[1].price_cents] :
        t \in {u \in c.price_observation \X c.store_item \X c.store \X c.canonical_item :
                 /\ u[2].id = u[1].store_item_id
                 /\ u[3].id = u[2].store_id
                 /\ u[4].id = u[2].canonical_item_id
                 /\ u[4].family_key = key}}

\* ORDER BY s.name ASC, ci.unit ASC, ci.size ASC, po.observed_on DESC
HistoryBefore(x, y) ==
    IF x.store_name # y.store_name \/ x.unit # y.unit \/ x.size # y.size
    THEN CheapestBefore(x, y)
    ELSE StrLess(y.observed_on, x.observed_on)

RECURSIVE OrderHistoryRows(_)
OrderHistoryRows(S) ==
    IF S = {} THEN <<>>
    ELSE LET m == CHOOSE x \in S : \A y \in S \ {x} : HistoryBefore(x, y)
         IN  <<m>> \o OrderHistoryRows(S \ {m})

\* latest2: the groups in the order their first row comes, each with the
\* first two (observed_on, price_cents) of its rows
RECURSIVE latest2(_, _)
latest2(rows, acc) ==
    IF rows = <<>> THEN acc
    ELSE LET r == Head(rows)
             k == <<r.store_name, r.label, r.size, r.unit>>
             pt == <<r.observed_on, r.price_cents>>
             at == {i \in DOMAIN acc : acc[i].k = k}
         IN  IF at = {} THEN latest2(Tail(rows), Append(acc, [k |-> k, pts |-> <<pt>>]))
             ELSE LET i == CHOOSE i \in at : TRUE
                  IN  IF Len(acc[i].pts) < 2
                      THEN latest2(Tail(rows), [acc EXCEPT ![i].pts = Append(@, pt)])
                      ELSE latest2(Tail(rows), acc)

\* the lines of the trend report: n/a with the latest value for a group of
\* one observation, else _trend(p2, p1) of the first two
trend_report(c, key) ==
    LET groups == latest2(OrderHistoryRows(HistoryRows(c, key)), <<>>)
    IN  [i \in DOMAIN groups |->
            LET pts == groups[i].pts
            IN  IF Len(pts) < 2
                THEN [k |-> groups[i].k, na |-> TRUE, last |-> pts[1], prev |-> pts[1],
                      trend |-> Trend("", 0, <<0, 1>>)]
                ELSE [k |-> groups[i].k, na |-> FALSE, last |-> pts[1], prev |-> pts[2],
                      trend |-> _trend(pts[2][2], pts[1][2])]]

\* the methods class ObservationRepo defines
ObservationRepoMethods ==
    {"insert_daily", "history_by_canonical_key", "latest_two_by_canonical_key",
     "trend", "fmt_delta"}

\* cmd_history --key key [--trend]: obs_repo.history_by_family_key(args.key)
\* is looked up first; nodata is the "No history" return
cmd_history(c, key, want_trend) ==
    IF "history_by_family_key" \notin ObservationRepoMethods
    THEN [err |-> "AttributeError", nodata |-> FALSE, trend |-> <<>>]
    ELSE IF HistoryRows(c, key) = {}
    THEN [err |-> NoErr, nodata |-> TRUE, trend |-> <<>>]
    ELSE [err |-> NoErr, nodata |-> FALSE,
          trend |-> IF want_trend THEN trend_report(c, key) ELSE <<>>]

-----------------------------------------------------------------------------
(* Ingestion: cmd_scrape_all, one step per statement that can fail or be        *)
(* interrupted, and direct insert_daily calls                                   *)

\* most track-url commands run before the ingestion starts
MaxTracked == 2

Spar == <<"s", "p", "a", "r">>
Lidl == <<" ", "L", "i", "d", "l">>
Milk(store, url, scraper) ==
    [store |-> store, url |-> url, scraper |-> scraper,
     key |-> <<"m">>, label |-> <<"x">>, size |-> 1, unit |-> <<"l">>]

TrackInputs ==
    {Milk(<<"A">>, <<"u">>, Spar), Milk(<<"A">>, <<"u">>, <<"x">>),
     Milk(<<"B">>, <<"v">>, Lidl), Milk(<<"B">>, <<"v">>, <<"x">>)}

RECURSIVE TrackAll(_, _)
TrackAll(d, cmds) ==
    IF cmds = <<>> THEN d ELSE TrackAll(cmd_track_url(d, Head(cmds)), Tail(cmds))

\* the catalogs that up to MaxTracked track-url commands leave behind
Catalogs ==
    {TrackAll(EmptyDb, cmds) : cmds \in UNION {[1..n -> TrackInputs] : n \in 0..MaxTracked}}

DateInputs == {<<"1">>, <<"2", " ">>, <<" ">>}

Ended == {"idle", "done", "exit2", "aborted", "crashed"}

ObsOf(rows, sid, day) == {r \in rows : r.store_item_id = sid /\ r.observed_on = day}

InsertRecord(c, sid, day, price_cents, title_raw, r) ==
    LET valid == Strip(day) # <<>> /\ price_cents >= 0
        old == ObsOf(c.price_observation, sid, Strip(day))
    IN  [op |-> "insert_daily", ret |-> r.ret, err |-> r.err, valid |-> valid,
         key |-> IF valid THEN <<sid, Strip(day)>> ELSE <<>>,
         val |-> IF valid THEN <<price_cents, title_raw>> ELSE <<>>,
         hit |-> old # {},
         chg |-> \E x \in old : <<x.price_cents, x.title_raw>> # <<price_cents, title_raw>>,
         was |-> 0, before |-> Cardinality(c.price_observation)]

Wrote(sid, day, price_cents, title_raw, r) ==
    IF r.err = NoErr /\ r.ret = TRUE
    THEN wrote \cup {ObservationRow(sid, Strip(day), price_cents, title_raw)}
    ELSE wrote

Counted(how) == {i \in 1..Len(res) : res[i] = how}

\* the rows of the items the run so far counted as inserted or skipped
SeenNow ==
    {r \in db.price_observation :
        \E i \in Counted("inserted") \cup Counted("skipped") :
            /\ r.store_item_id = items[i].store_item_id
            /\ r.observed_on = Strip(observed_on)}

\* a caller runs obs_repo.insert_daily in a transaction of its own
InsertDailyCall(sid, day, pt) ==
    /\ pc \in Ended
    /\ sid \in {r.id : r \in db.store_item}
    /\ LET r == insert_daily(init_db(db), sid, day, pt[1], pt[2])
       IN  /\ db' = transaction(db, r)
           /\ conn' = db'
           /\ last' = InsertRecord(db, sid, day, pt[1], pt[2], r)
           /\ wrote' = Wrote(sid, day, pt[1], pt[2], r)
    /\ seen' = seen \cup SeenNow
    /\ ResetRun
    /\ UNCHANGED issued

\* cmd_scrape_all up to the loop
ScrapeAllStart(date, foe) ==
    /\ pc \in Ended
    /\ conn' = init_db(db)
    /\ observed_on' = date
    /\ fail_on_error' = foe
    /\ items' = list_for_scrape(conn')
    /\ pc' = IF items' = <<>> THEN "done" ELSE "scrape"
    /\ idx' = 1
    /\ inserted' = 0
    /\ skipped' = 0
    /\ failed' = 0
    /\ scraped' = <<>>
    /\ ok' = FALSE
    /\ res' = [i \in 1..Len(items') |-> "pending"]
    /\ ext' = [i \in 1..Len(items') |-> "pending"]
    /\ tries' = [i \in 1..Len(items') |-> 0]
    /\ seen' = seen \cup SeenNow
    /\ UNCHANGED <<db, wrote, issued, last>>

\* the loop moves to the next item, or ends
NextItem == pc' = (IF idx = Len(items) THEN "summary" ELSE "scrape") /\ idx' = idx + 1

\* except Exception: failed += 1
CountFailed ==
    /\ failed' = failed + 1
    /\ res' = [res EXCEPT ![idx] = "failed"]
    /\ NextItem
    /\ UNCHANGED <<inserted, skipped>>

\* scrape_url(si.scraper, si.url)
ScrapeUrl(x) ==
    /\ pc = "scrape"
    /\ LET r == scrape_url(items[idx].scraper, x)
       IN  /\ tries' = [tries EXCEPT ![idx] = @ + 1]
           /\ ext' = [ext EXCEPT ![idx] = r.err]
           /\ IF r.err = "SystemExit"
              THEN /\ pc' = "aborted"
                   /\ UNCHANGED <<idx, scraped, inserted, skipped, failed, res>>
              ELSE IF r.err # NoErr
              THEN CountFailed /\ UNCHANGED scraped
              ELSE /\ scraped' = <<r.price_cents, r.title_raw>>
                   /\ pc' = "insert"
                   /\ UNCHANGED <<idx, inserted, skipped, failed, res>>
    /\ UNCHANGED <<db, conn, items, observed_on, fail_on_error, ok, seen, wrote, issued, last>>

\* with transaction(conn): ok = obs_repo.insert_daily(...), up to the commit
ScrapeInsert ==
    /\ pc = "insert"
    /\ LET sid == items[idx].store_item_id
           r == insert_daily(conn, sid, observed_on, scraped[1], scraped[2])
       IN  /\ last' = InsertRecord(conn, sid, observed_on, scraped[1], scraped[2], r)
           /\ IF r.err # NoErr
              THEN /\ conn' = db
                   /\ CountFailed
                   /\ UNCHANGED ok
              ELSE /\ conn' = r.conn
                   /\ ok' = r.ret
                   /\ pc' = "commit"
                   /\ UNCHANGED <<idx, inserted, skipped, failed, res>>
    /\ UNCHANGED <<db, items, observed_on, fail_on_error, scraped, ext, tries, seen,
                   wrote, issued>>

\* the transaction is left without the commit having happened
ScrapeCommitDeferred ==
    /\ pc = "commit"
    /\ IF ok
       THEN inserted' = inserted + 1 /\ res' = [res EXCEPT ![idx] = "inserted"]
                                     /\ UNCHANGED skipped
       ELSE skipped' = skipped + 1 /\ res' = [res EXCEPT ![idx] = "skipped"]
                                   /\ UNCHANGED inserted
    /\ wrote' = Wrote(items[idx].store_item_id, observed_on, scraped[1], scraped[2],
                      Return(conn, ok))
    /\ NextItem
    /\ UNCHANGED <<db, conn, items, observed_on, fail_on_error, scraped, ok, failed, ext,
                   tries, seen, issued, last>>

\* conn.commit() on leaving the with block, then inserted += 1 or skipped += 1
ScrapeCommit ==
    /\ pc = "commit"
    /\ db' = transaction(db, Return(conn, ok))
    /\ IF ok
       THEN inserted' = inserted + 1 /\ res' = [res EXCEPT ![idx] = "inserted"]
                                     /\ UNCHANGED skipped
       ELSE skipped' = skipped + 1 /\ res' = [res EXCEPT ![idx] = "skipped"]
                                   /\ UNCHANGED inserted
    /\ wrote' = Wrote(items[idx].store_item_id, observed_on, scraped[1], scraped[2],
                      Return(conn, ok))
    /\ NextItem
    /\ UNCHANGED <<conn, items, observed_on, fail_on_error, scraped, ok, failed, ext,
                   tries, seen, issued, last>>

\* print Done; raise SystemExit(2) if failed > 0 and args.fail_on_error
ScrapeSummary ==
    /\ pc = "summary"
    /\ pc' = IF failed > 0 /\ fail_on_error THEN "exit2" ELSE "done"
    /\ UNCHANGED <<db, conn, items, idx, observed_on, fail_on_error, scraped, ok,
                   inserted, skipped, failed, res, ext, tries, seen, wrote, issued, last>>

\* the process is killed during the run: the open transaction is lost
Crash ==
    /\ pc \in {"scrape", "insert", "commit", "summary"}
    /\ pc' = "crashed"
    /\ conn' = db
    /\ UNCHANGED <<db, items, idx, observed_on, fail_on_error, scraped, ok,
                   inserted, skipped, failed, res, ext, tries, seen, wrote, issued, last>>

Init ==
    /\ db \in Catalogs
    /\ conn = db
    /\ issued = NoIssued
    /\ last = NoCall
    /\ wrote = {}
    /\ InitRun

Next ==
    \/ \E date \in DateInputs, foe \in BOOLEAN : ScrapeAllStart(date, foe)
    \/ \E x \in Extractions : ScrapeUrl(x)
    \/ ScrapeInsert
    \/ ScrapeCommit
    \/ ScrapeSummary
    \/ Crash

Spec == Init /\ [][Next]_vars

-----------------------------------------------------------------------------
(* Every command of the program on one database: track-url (and re-tracking),  *)
(* scrape-all, direct insert_daily calls and the reading commands.  Of the     *)
(* reading commands only the statements they send to the database and the way  *)
(* they end are modelled here.                                                 *)

Command(op, err, ret) == [NoCall EXCEPT !.op = op, !.err = err, !.ret = ret]

\* cmd_track_url
TrackUrl(a) ==
    /\ pc \in Ended
    /\ LET r == track_url(init_db(db), a)
       IN  /\ db' = transaction(db, r)
           /\ conn' = db'
           /\ issued' = Issue("store_item",
                              <<Strip(a.store), CanonKey(a.key, a.size, a.unit)>>, r)
           /\ last' = LET was == IssuedId("store_item",
                                           <<Strip(a.store), CanonKey(a.key, a.size, a.unit)>>)
                       IN  [Command("track_url", r.err, r.ret) EXCEPT
                              !.key = <<Strip(a.store), CanonKey(a.key, a.size, a.unit)>>,
                              !.was = was,
                              !.hit = \E si \in db.store_item : si.id = was,
                              !.chg = \E si \in db.store_item :
                                         /\ si.id = was
                                         /\ <<si.url, si.scraper>>
                                               # <<Strip(a.url), Lower(Strip(a.scraper))>>,
                              !.before = Cardinality({o \in db.price_observation :
                                                        o.store_item_id = was})]
    /\ seen' = seen \cup SeenNow
    /\ ResetRun
    /\ UNCHANGED wrote

\* the command empties the observation table before it ends
ReadCommand_writing(op, err, ret) ==
    /\ pc \in Ended
    /\ conn' = init_db(db)
    /\ db' = [db EXCEPT !.price_observation = {}]
    /\ last' = Command(op, err, ret)
    /\ seen' = seen \cup SeenNow
    /\ ResetRun
    /\ UNCHANGED <<wrote, issued>>

\* a command that only sends SELECT statements, ending with err
ReadCommand(op, err, ret) ==
    /\ pc \in Ended
    /\ conn' = init_db(db)
    /\ last' = Command(op, err, ret)
    /\ seen' = seen \cup SeenNow
    /\ ResetRun
    /\ UNCHANGED <<db, wrote, issued>>

\* cmd_history: ObservationRepo has no method history_by_family_key
CmdHistory == ReadCommand("history", "AttributeError", 0)

\* cmd_cheapest
CmdCheapest == ReadCommand("cheapest", NoErr, 0)

\* cmd_compare_list
CmdCompareList == ReadCommand("compare_list", NoErr, 0)

\* items[: limit] of cmd_doctor
Take(seq, n) == SubSeq(seq, 1, IF n < Len(seq) THEN n ELSE Len(seq))

\* the items cmd_doctor checks: store and key filter when given (not empty),
\* limit cuts when not None
doctor_items(c, store, key, limited, limit) ==
    LET all == list_for_scrape(c)
        KeepStore(x) == store = <<>> \/ Lower(x.store_name) = Lower(Strip(store))
        KeepKey(x) == key = <<>> \/ Lower(x.family_key) = Lower(Strip(key))
        by_store == SelectSeq(all, KeepStore)
        by_key == SelectSeq(by_store, KeepKey)
    IN  IF limited THEN Take(by_key, limit) ELSE by_key

\* cmd_doctor: xs[i] is what the extractor of item i does; the loop calls
\* scrape_url for each item and writes nothing
CmdDoctor(store, key, limited, limit, foe, xs) ==
    LET its == doctor_items(init_db(db), store, key, limited, limit)
        out == [i \in 1..Len(its) |-> scrape_url(its[i].scraper, xs[i]).err]
        good == Cardinality({i \in 1..Len(its) : out[i] = NoErr})
        fail == Cardinality({i \in 1..Len(its) : out[i] = "Exception"})
    IN  /\ Len(xs) = Len(list_for_scrape(init_db(db)))
        /\ ReadCommand("doctor",
                       IF \E i \in 1..Len(its) : out[i] = "SystemExit" THEN "SystemExit"
                       ELSE IF fail > 0 /\ foe THEN "SystemExit2"
                       ELSE NoErr,
                       good)

AllTrackInputs ==
    {Milk(<<"A">>, <<"u">>, Spar), Milk(<<"A", " ">>, <<"v">>, <<"x">>),
     Milk(<<>>, <<"u">>, Spar)}
AllDateInputs == {<<"1">>, <<"2", " ">>}
AllCallDateInputs == {<<" ", "1">>, <<>>}
CallPriceInputs == {<<-1, "t1">>, <<1, "t1">>, <<2, "t2">>}

InitAll ==
    /\ db = EmptyDb
    /\ conn = EmptyDb
    /\ issued = NoIssued
    /\ last = NoCall
    /\ wrote = {}
    /\ InitRun

NextAll ==
    \/ \E a \in AllTrackInputs : TrackUrl(a)
    \/ \E date \in AllDateInputs, foe \in BOOLEAN : ScrapeAllStart(date, foe)
    \/ \E x \in Extractions : ScrapeUrl(x)
    \/ ScrapeInsert
    \/ ScrapeCommit
    \/ ScrapeSummary
    \/ Crash
    \/ \E sid \in 1..MaxTracked, day \in AllCallDateInputs, pt \in CallPriceInputs :
          InsertDailyCall(sid, day, pt)
    \/ CmdHistory
    \/ CmdCheapest
    \/ CmdCompareList
    \/ \E store \in {<<>>, <<"a">>}, limited \in BOOLEAN, foe \in BOOLEAN,
          xs \in UNION {[1..n -> Extractions] : n \in 0..MaxTracked} :
          CmdDoctor(store, <<>>, limited, 1, foe, xs)

SpecAll == InitAll /\ [][NextAll]_vars

-----------------------------------------------------------------------------
(* track-url, re-tracking and failing track-url commands between scrape-all   *)
(* runs and insert_daily calls                                                 *)

\* store A tracked, re-tracked with another url and scraper, store B tracked;
\* commands that fail in get_or_create (blank store), in upsert (size 0,
\* blank label) and in upsert_mapping (blank url, empty scraper) after the
\* earlier steps
RetrackInputs ==
    {Milk(<<"A">>, <<"u">>, Spar), Milk(<<"A">>, <<"v">>, Lidl),
     Milk(<<"B">>, <<"u">>, Spar),
     Milk(<<" ">>, <<"u">>, Spar),
     [Milk(<<"H">>, <<"u">>, Spar) EXCEPT !.size = 0],
     [Milk(<<"H">>, <<"u">>, Spar) EXCEPT !.label = <<" ">>],
     Milk(<<"H">>, <<" ">>, Spar),
     [Milk(<<"A">>, <<"u">>, <<>>) EXCEPT !.unit = <<"g">>]}

NextTrack ==
    \/ \E a \in RetrackInputs : TrackUrl(a)
    \/ \E date \in {<<"1">>, <<" ">>}, foe \in BOOLEAN : ScrapeAllStart(date, foe)
    \/ \E x \in Extractions : ScrapeUrl(x)
    \/ ScrapeInsert
    \/ ScrapeCommit
    \/ ScrapeSummary
    \/ \E sid \in 1..MaxTracked, day \in {<<"1">>, <<>>}, pt \in {<<-1, "t1">>, <<1, "t1">>} :
          InsertDailyCall(sid, day, pt)

SpecTrack == InitAll /\ [][NextTrack]_vars

-----------------------------------------------------------------------------
(* cheapest and compare-list on a catalog of two stores: store A tracks milk   *)
(* as 1 l and eggs as 10 pcs, store B tracks milk as 500 ml, 1 box and 2 l;    *)
(* insert_daily calls add the observations in any order                        *)

Pack(store, key, label, size, unit) ==
    [store |-> store, url |-> <<"u">>, scraper |-> Spar,
     key |-> key, label |-> label, size |-> size, unit |-> unit]

CompareTracked ==
    <<Pack(<<"A">>, <<"m">>, <<"x">>, 1, <<"l">>),
      Pack(<<"B">>, <<"m">>, <<"y">>, 500, <<"m", "l">>),
      Pack(<<"B">>, <<"m">>, <<"b">>, 1, <<"b", "o", "x">>),
      Pack(<<"A">>, <<"e">>, <<"e">>, 10, <<"p", "c", "s">>),
      Pack(<<"B">>, <<"m">>, <<"z">>, 2, <<"l">>)>>

CompareCatalog == TrackAll(EmptyDb, CompareTracked)

\* the insert_daily calls: store item, date, price
ObservationInputs ==
    {<<1, <<"1">>, 109>>, <<1, <<"1">>, 199>>, <<1, <<"2">>, 109>>, <<1, <<"2">>, 199>>,
     <<2, <<"1">>, 109>>, <<2, <<"1">>, 199>>,
     <<3, <<"1">>, 109>>, <<3, <<"1">>, 199>>,
     <<4, <<"1">>, 109>>, <<4, <<"2">>, 199>>,
     <<5, <<"1">>, 199>>}
FamilyKeyInputs == {<<"m">>, <<"e">>, <<"o">>}

\* shopping lists: entries (key, qty) as the JSON file gives them
ShoppingLists ==
    {<<(<<(<<"m">>), 1>>)>>,
     <<(<<(<<" ", "m">>), 1>>), <<(<<"e">>), 2>>>>,
     <<(<<(<<"m">>), 0>>), <<(<<" ">>), 1>>>>,
     <<(<<(<<"o">>), 1>>), <<(<<"e">>), 1>>, <<(<<"m">>), 2>>>>}

\* cmd_cheapest --key key
CheapestCall(key) ==
    ReadCommand("cheapest", NoErr, [key |-> key, out |-> cmd_cheapest(init_db(db), key)])

\* cmd_compare_list --list with the entries list_items
CompareListCall(list_items, rev) ==
    ReadCommand("compare_list", NoErr,
                [list |-> list_items,
                 out |-> cmd_compare_list(init_db(db), list_items, rev)])

\* cmd_history --key key, with --trend or without
HistoryCall(key, want_trend) ==
    LET r == cmd_history(init_db(db), key, want_trend)
    IN  ReadCommand("history", r.err, [key |-> key, trend |-> want_trend, out |-> r])

InitCompare ==
    /\ db = CompareCatalog
    /\ conn = db
    /\ issued = NoIssued
    /\ last = NoCall
    /\ wrote = {}
    /\ InitRun

NextCompare ==
    \/ \E o \in ObservationInputs : InsertDailyCall(o[1], o[2], <<o[3], "t1">>)
    \/ \E key \in FamilyKeyInputs : CheapestCall(key)
    \/ \E list_items \in ShoppingLists, rev \in BOOLEAN : CompareListCall(list_items, rev)
    \/ \E key \in FamilyKeyInputs, want_trend \in BOOLEAN : HistoryCall(key, want_trend)

SpecCompare == InitCompare /\ [][NextCompare]_vars

-----------------------------------------------------------------------------
(* Properties of the observation table and of scrape-all *)

Day == Strip(observed_on)

ItemObs(rows, i) == ObsOf(rows, items[i].store_item_id, Day)

UniqueObs(rows) ==
    \A r1, r2 \in rows :
        (r1.store_item_id = r2.store_item_id /\ r1.observed_on = r2.observed_on) => r1 = r2

\* C1: after any sequence of insert_daily calls and scrape-all runs (any date,
\* any extractor outcome), the observation table, committed or as the
\* connection sees it, holds at most one row per (store_item_id, observed_on).
C1_OneObservationPerItemDay ==
    UniqueObs(db.price_observation) /\ UniqueObs(conn.price_observation)

C1_Witness ==
    /\ last.op = "insert_daily"
    /\ last.hit
    /\ last.chg
    /\ Cardinality(db.price_observation) >= 2

\* C2: insert_daily with valid arguments returns true exactly when no row
\* existed for (store_item_id, observed_on) before the call; when one existed
\* the table keeps its size and the stored row keeps the price and title the
\* call that returned true gave it, also when the later call carries others.
C2_InsertDailyReturn ==
    /\ (last.op = "insert_daily" /\ last.valid)
         => /\ last.err = NoErr
            /\ last.ret = ~last.hit
            /\ last.hit =>
                 \E r \in wrote :
                    /\ <<r.store_item_id, r.observed_on>> = last.key
                    /\ pc # "crashed" => r \in conn.price_observation
                    /\ last.chg => <<r.price_cents, r.title_raw>> # last.val
    /\ db.price_observation = wrote
    /\ \A r \in conn.price_observation \ wrote :
          /\ pc = "commit"
          /\ ok
          /\ r = ObservationRow(last.key[1], last.key[2], last.val[1], last.val[2])

C2_Witness ==
    /\ last.op = "insert_daily"
    /\ last.valid
    /\ last.hit
    /\ last.chg
    /\ last.ret = FALSE

\* the run ended by itself (it was not killed)
RunOver == pc \in {"done", "exit2", "aborted"}

\* C3: a scrape-all run never stops early: when it is over every tracked item
\* was attempted and the final summary was reached.
C3_NeverStopsEarly ==
    RunOver => /\ pc \in {"done", "exit2"}
               /\ \A i \in 1..Len(items) : tries[i] >= 1

\* how item i of the run is to be counted, from what happened to it
Due(i) ==
    IF ext[i] # NoErr \/ Day = <<>> THEN "failed"
    ELSE IF ItemObs(wrote, i) # {} /\ res[i] = "inserted" THEN "inserted"
    ELSE "skipped"

CountsMatch ==
    /\ \A i \in 1..Len(items) : tries[i] <= 1
    /\ inserted = Cardinality(Counted("inserted"))
    /\ skipped = Cardinality(Counted("skipped"))
    /\ failed = Cardinality(Counted("failed"))
    /\ \A i \in 1..Len(items) :
          /\ (i < idx /\ pc # "aborted") => res[i] # "pending"
          /\ res[i] # "pending" => res[i] = Due(i)

\* C4: each item's extractor is invoked at most once and each item is counted
\* in exactly one of inserted, skipped, failed; when the run is over the three
\* counters add up to the number of tracked items.
C4_CountsPartition ==
    /\ CountsMatch
    /\ RunOver => inserted + skipped + failed = Len(items)

\* C5: in a run over items that an earlier run with the same date counted as
\* inserted or skipped, such an item is never counted as inserted and is
\* counted as skipped once its extraction has succeeded again, whatever price
\* the extractor returns, and the rows those runs left are still stored.
C5_RerunSkips ==
    /\ seen \subseteq db.price_observation
    /\ \A i \in 1..Len(res) :
          ItemObs(seen, i) # {}
          => /\ res[i] # "inserted"
             /\ (ext[i] = NoErr /\ i < idx) => res[i] = "skipped"

C5_Witness ==
    \E i \in 1..Len(res) :
        /\ ItemObs(seen, i) # {}
        /\ res[i] = "skipped"
        /\ last.op = "insert_daily"
        /\ last.key = <<items[i].store_item_id, Day>>
        /\ last.chg

\* C6: every insert of a run is committed before the next extractor call:
\* when scrape_url is called nothing is uncommitted, every item counted as
\* inserted or skipped has its row committed, at most the row of the item in
\* progress is uncommitted, and a kill during the run leaves every committed
\* row in place.
C6_PerItemCommit ==
    /\ pc = "scrape" => conn = db
    /\ \A j \in 1..Len(res) :
          res[j] \in {"inserted", "skipped"} => ItemObs(db.price_observation, j) # {}
    /\ Cardinality(conn.price_observation \ db.price_observation) <= 1
    /\ \A r \in conn.price_observation \ db.price_observation :
          pc = "commit" /\ r.store_item_id = items[idx].store_item_id
    /\ db.price_observation \subseteq conn.price_observation
    /\ wrote \subseteq db.price_observation

C6_Witness ==
    /\ pc = "crashed"
    /\ idx = 2
    /\ Len(items) >= 2
    /\ res[1] = "inserted"
    /\ last.op = "insert_daily"
    /\ last.key = <<items[2].store_item_id, Day>>
    /\ last.ret = TRUE
    /\ ItemObs(db.price_observation, 2) = {}

\* C7: whatever command runs (track-url, re-tracking, scrape-all, a direct
\* insert_daily, history, cheapest, compare-list, doctor, a kill), a committed
\* observation row stays in the table with all its columns unchanged.
C7_ObservationsAppendOnly ==
    [][\A r \in db.price_observation : r \in db'.price_observation]_vars

C7_Witness ==
    /\ last.op = "track_url"
    /\ last.err = NoErr
    /\ db.price_observation # {}
    /\ \E si \in db.store_item : si.url = <<"v">>

-----------------------------------------------------------------------------
(* Properties of the store item mapping (SpecMapping) *)

\* C11: after any sequence of upsert_mapping calls there is at most one store
\* item per (store_id, canonical_item_id), every call for a pair returns the id
\* the earlier calls for that pair returned and adds no row, the stored url
\* and scraper are the trimmed url and the trimmed, lower-cased scraper of the
\* most recent call, and every stored scraper key is trimmed and lower-cased.
C11_MappingKeyedOnPair ==
    /\ \A r1, r2 \in db.store_item :
          (r1.store_id = r2.store_id /\ r1.canonical_item_id = r2.canonical_item_id)
          => r1 = r2
    /\ \A p, q \in issued.store_item : p[1] = q[1] => p[2] = q[2]
    /\ \A r \in db.store_item : r.scraper # <<>> /\ r.scraper = Lower(Strip(r.scraper))
    /\ (last.op = "upsert_mapping" /\ last.valid)
         => /\ last.err = NoErr
            /\ \E r \in db.store_item :
                 /\ r.id = last.ret
                 /\ <<r.store_id, r.canonical_item_id>> = last.key
                 /\ <<r.url, r.scraper>> = last.val
            /\ last.hit => Cardinality(db.store_item) = last.before
            /\ last.was # 0 => last.ret = last.was

C11_Witness ==
    /\ last.op = "upsert_mapping"
    /\ last.valid
    /\ last.hit
    /\ last.chg
    /\ last.was # 0
    /\ last.ret = last.was
    /\ last.val = <<<<"v">>, <<"l", "i", "d", "l">>>>
    /\ Cardinality(db.store_item) >= 2

\* the arguments a canonical upsert rejects
InvalidUpsert(family_key, label, size, unit) ==
    \/ Strip(family_key) = <<>>
    \/ Strip(label) = <<>>
    \/ Strip(unit) = <<>>
    \/ size <= 0

\* C12: a canonical upsert whose family_key, label or unit is empty after
\* trimming, or whose size is <= 0, raises ValueError, returns no id and
\* leaves the canonical item table as it was, on the connection too: it does
\* not write a coerced value.
C12_UpsertRejectsInvalid ==
    /\ (last.op = "upsert" /\ ~last.valid)
         => /\ last.err = "ValueError"
            /\ last.ret = 0
            /\ Cardinality(db.canonical_item) = last.before
    /\ \A f \in FamilyInputs, l \in LabelInputs, s \in SizeInputs, u \in UnitInputs :
          InvalidUpsert(f, l, s, u)
          => LET r == upsert(db, f, l, s, u)
             IN  r.err = "ValueError" /\ r.conn = db

C12_Witness ==
    /\ last.op = "upsert"
    /\ ~last.valid
    /\ last.err = "ValueError"
    /\ Cardinality(db.canonical_item) = MaxCanon

-----------------------------------------------------------------------------
(* Properties of the unit prices and trends (SpecPure) *)

SameUnitPrice(a, b) ==
    /\ a.none = b.none
    /\ ~a.none => RatEq(a.val, b.val) /\ a.unit = b.unit

\* the policy table for a unit u: price_cents / 100 is the price
PolicyTable(price_cents, size, u) ==
    IF size <= 0 THEN None
    ELSE CASE u = <<"l">> -> UnitPrice(price_cents, 100 * size, <<"l">>)
           [] u = <<"m", "l">> -> UnitPrice(price_cents * 10, size, <<"l">>)
           [] u = <<"k", "g">> -> UnitPrice(price_cents, 100 * size, <<"k", "g">>)
           [] u = <<"g">> -> UnitPrice(price_cents * 10, size, <<"k", "g">>)
           [] u = <<"p", "c", "s">> -> UnitPrice(price_cents, 100 * size, <<"p", "c", "s">>)
           [] u = <<"k", "o", "s">> -> UnitPrice(price_cents, 100 * size, <<"p", "c", "s">>)
           [] OTHER -> None

\* C13 as stated: compute_normalized_unit_price gives, for every input, what the
\* policy table gives for the unit as passed: None for size <= 0 and for every
\* unit other than l, ml, kg, g, pcs, kos.
C13_PolicyTableAsPassed ==
    last.op = "normalize"
    => SameUnitPrice(last.ret, PolicyTable(last.key[1], last.key[2], last.key[3]))

\* C13 amended: compute_normalized_unit_price gives, for every input, what the
\* policy table gives for the unit lower-cased and trimmed.
C13_PolicyTableOfFoldedUnit ==
    last.op = "normalize"
    => SameUnitPrice(last.ret,
                     PolicyTable(last.key[1], last.key[2], Strip(Lower(last.key[3]))))

C13_Witness ==
    /\ last.op = "normalize"
    /\ last.key = <<199, 500, <<"m", "l">>>>
    /\ ~last.ret.none
    /\ RatEq(last.ret.val, <<398, 100>>)
    /\ last.ret.unit = <<"l">>

TrendAsSpecified(prev_cents, last_cents, t) ==
    /\ t.err = NoErr
    /\ t.delta = last_cents - prev_cents
    /\ t.arrow = "up" <=> t.delta > 0
    /\ t.arrow = "down" <=> t.delta < 0
    /\ t.arrow = "flat" <=> t.delta = 0
    /\ prev_cents > 0 => RatEq(t.pct, <<t.delta * 100, prev_cents>>)
    /\ prev_cents = 0 => t.pct[1] = 0

\* C14: for non-negative prev and last both trend functions return
\* delta = last - prev, arrow up iff delta > 0, down iff delta < 0, flat iff
\* delta = 0, pct = delta / prev * 100 when prev > 0 and 0 when prev = 0,
\* without a division by zero.
C14_Trend ==
    last.op = "trend"
    => /\ TrendAsSpecified(last.key[1], last.key[2], last.ret[1])
       /\ TrendAsSpecified(last.key[1], last.key[2], last.ret[2])

C14_Witness ==
    /\ last.op = "trend"
    /\ last.key = <<0, 5>>
    /\ last.ret[1].arrow = "up"
    /\ last.ret[1].pct[1] = 0
    /\ last.ret[2].delta = 5

-----------------------------------------------------------------------------
(* Properties of cheapest and compare-list (SpecCompare) *)

\* the observations of a store item that no other of its observations is
\* later than
Latest(sid) ==
    {r \in db.price_observation :
        /\ r.store_item_id = sid
        /\ \A q \in db.price_observation :
              q.store_item_id = sid => ~StrLess(r.observed_on, q.observed_on)}

\* the tracked packs of a family: store item, store, pack size and unit
FamilyItems(key) ==
    {[store_item_id |-> si.id, store_id |-> si.store_id, size |-> ci.size, unit |-> ci.unit] :
        <<si, ci>> \in {t \in db.store_item \X db.canonical_item :
                          t[2].id = t[1].canonical_item_id /\ t[2].family_key = key}}

StoreName(sid) == (CHOOSE x \in db.store : x.id = sid).name

\* the value an option is ranked by: its normalized unit price, or, for an
\* unsupported unit, its pack price
RankValue(price_cents, size, unit) ==
    LET n == PolicyTable(price_cents, size, Strip(Lower(unit)))
    IN  IF n.none THEN <<price_cents, 100>> ELSE n.val

Supported(size, unit) == ~PolicyTable(1, size, Strip(Lower(unit))).none

\* C15: cmd_cheapest considers, for each store item of the family that has
\* observations, exactly its observation with the greatest observed_on, and
\* the option it reports as cheapest has the least unit price among them
\* (normalized; the pack price where the unit is unsupported).
C15_CheapestByNormalizedLatest ==
    last.op = "cheapest"
    => LET out == last.ret.out
           obs == out.observed
       IN  /\ \A i \in 1..Len(obs) :
                 \E r \in Latest(obs[i].store_item_id) :
                    r.price_cents = obs[i].price_cents /\ r.observed_on = obs[i].observed_on
           /\ \A it \in FamilyItems(last.ret.key) :
                 Latest(it.store_item_id) # {}
                 => \E i \in 1..Len(obs) : obs[i].store_item_id = it.store_item_id
           /\ obs # <<>>
               => /\ Len(out.best) = 1
                  /\ \E i \in 1..Len(obs) : obs[i] = out.best[1]
                  /\ \A i \in 1..Len(obs) :
                        RatLeq(RankValue(out.best[1].price_cents, out.best[1].size,
                                         out.best[1].unit),
                               RankValue(obs[i].price_cents, obs[i].size, obs[i].unit))

C15_Witness ==
    /\ last.op = "cheapest"
    /\ last.ret.key = <<"m">>
    /\ Len(last.ret.out.observed) = 2
    /\ last.ret.out.best[1].store = <<"A">>
    /\ last.ret.out.best[1].price_cents = 199
    /\ last.ret.out.best[1].observed_on = <<"2">>
    /\ \E r \in db.price_observation :
          r.store_item_id = 1 /\ r.observed_on = <<"1">> /\ r.price_cents = 109
    /\ \E i \in 1..2 :
          /\ last.ret.out.observed[i].store = <<"B">>
          /\ last.ret.out.observed[i].unit = <<"m", "l">>
          /\ last.ret.out.observed[i].price_cents = 109

\* C16: after cmd_cheapest every tracked store item of the family is once in
\* observed and not in missing when it has an observation, and once in
\* missing and not in observed when it has none.
C16_CheapestObservedOrMissing ==
    last.op = "cheapest"
    => LET out == last.ret.out
           items_of == FamilyItems(last.ret.key)
           NObserved(it) ==
               Cardinality({i \in 1..Len(out.observed) :
                               out.observed[i].store_item_id = it.store_item_id})
           NMissing(it) ==
               Cardinality({i \in 1..Len(out.missing) :
                               out.missing[i] = [store |-> StoreName(it.store_id),
                                                 size |-> it.size, unit |-> it.unit]})
       IN  /\ Len(out.observed) + Len(out.missing) = Cardinality(items_of)
           /\ \A it \in items_of :
                 IF \E r \in db.price_observation : r.store_item_id = it.store_item_id
                 THEN NObserved(it) = 1 /\ NMissing(it) = 0
                 ELSE NObserved(it) = 0 /\ NMissing(it) = 1

C16_Witness ==
    /\ last.op = "cheapest"
    /\ last.ret.key = <<"m">>
    /\ Len(last.ret.out.observed) = 2
    /\ Len(last.ret.out.missing) = 2

\* the observed packs of a family in a store, each with its latest price
StorePacks(sid, key) ==
    {[store_item_id |-> it.store_item_id, size |-> it.size, unit |-> it.unit,
      price_cents |-> r.price_cents] :
        <<it, r>> \in {t \in FamilyItems(key) \X db.price_observation :
                         /\ t[1].store_id = sid
                         /\ t[2] \in Latest(t[1].store_item_id)}}

\* C17: the pack price of an option with an unsupported unit is never ranked
\* against the value of an option with another unit: the options cmd_cheapest
\* sorts, and the packs of which cmd_compare_list takes the minimum for a
\* line, have one unit whenever one of them has an unsupported unit.
C17_NoRankingAcrossUnits ==
    /\ last.op = "cheapest"
        => \A i, j \in 1..Len(last.ret.out.observed) :
              LET x == last.ret.out.observed[i]
                  y == last.ret.out.observed[j]
              IN  ~Supported(x.size, x.unit) => y.unit = x.unit
    /\ last.op = "compare_list"
        => \A k \in 1..Len(last.ret.out.stores) :
              LET e == last.ret.out.stores[k]
              IN  \A n \in 1..Len(e.lines) :
                     \A x, y \in StorePacks(e.store_id, e.lines[n].family_key) :
                        ~Supported(x.size, x.unit) => y.unit = x.unit

HasPack(sid, entry) == StorePacks(sid, entry[1]) # {}

\* C18: in cmd_compare_list each line of a store carries a pack of the family
\* with the least unit price among the store's observed packs of the family
\* (latest observation each), its line total is that pack's price_cents times
\* the quantity, and the store's total is the sum of its line totals.
C18_CompareListBestPack ==
    last.op = "compare_list"
    => \A k \in 1..Len(last.ret.out.stores) :
          LET e == last.ret.out.stores[k]
          IN  /\ e.total_cents = SumTotals(e.lines)
              /\ \A n \in 1..Len(e.lines) :
                    LET ln == e.lines[n]
                        packs == StorePacks(e.store_id, ln.family_key)
                    IN  \E p \in packs :
                           /\ p.store_item_id = ln.best.store_item_id
                           /\ p.price_cents = ln.best.price_cents
                           /\ ln.line_total = p.price_cents * ln.qty
                           /\ \A q \in packs :
                                 RatLeq(RankValue(p.price_cents, p.size, p.unit),
                                        RankValue(q.price_cents, q.size, q.unit))

C18_Witness ==
    /\ last.op = "compare_list"
    /\ \E k \in 1..Len(last.ret.out.stores) :
          LET e == last.ret.out.stores[k]
          IN  /\ e.store_name = <<"B">>
              /\ Len(e.lines) = 1
              /\ e.lines[1].qty = 2
              /\ e.lines[1].best.size = 2
              /\ e.lines[1].best.price_cents = 199
              /\ e.total_cents = 398
              /\ \E p \in StorePacks(e.store_id, <<"m">>) :
                    p.size = 500 /\ p.price_cents = 109

\* C19: cmd_compare_list reports every store of the database, and for every
\* store and every valid entry of the list the entry makes a line of the store
\* when the store has an observed pack of the family and an entry of its
\* missing list when it has none, never both and never neither.
C19_CompareListLineOrMissing ==
    (last.op = "compare_list" /\ last.ret.out.want # <<>>)
    => LET out == last.ret.out
       IN  /\ Len(out.stores) = Cardinality(db.store)
           /\ {out.stores[k].store_id : k \in 1..Len(out.stores)} = {x.id : x \in db.store}
           /\ \A k \in 1..Len(out.stores) :
                 LET e == out.stores[k]
                     Has(entry) == HasPack(e.store_id, entry)
                     Lacks(entry) == ~HasPack(e.store_id, entry)
                 IN  /\ [n \in 1..Len(e.lines) |-> <<e.lines[n].family_key, e.lines[n].qty>>]
                           = SelectSeq(out.want, Has)
                     /\ e.missing = SelectSeq(out.want, Lacks)

C19_Witness ==
    /\ last.op = "compare_list"
    /\ Len(last.ret.out.want) = 3
    /\ \E k \in 1..Len(last.ret.out.stores) :
          LET e == last.ret.out.stores[k]
          IN  /\ e.store_name = <<"B">>
              /\ Len(e.missing) = 2
              /\ Len(e.lines) = 1
              /\ e.total_cents > 0

\* C20: cmd_compare_list lists the stores in ascending order of (number of
\* missing families, total): a store listed before another has fewer missing
\* families, or as many and a total that is not higher.
C20_CompareListOrder ==
    last.op = "compare_list"
    => \A i, j \in 1..Len(last.ret.out.stores) :
          i < j
          => LET a == last.ret.out.stores[i]
                 b == last.ret.out.stores[j]
             IN  \/ Len(a.missing) < Len(b.missing)
                 \/ Len(a.missing) = Len(b.missing) /\ a.total_cents <= b.total_cents

C20_Witness ==
    /\ last.op = "compare_list"
    /\ Len(last.ret.out.stores) = 2
    /\ Len(last.ret.out.stores[1].missing) = 0
    /\ Len(last.ret.out.stores[2].missing) = 1
    /\ Len(last.ret.out.stores[2].lines) = 1
    /\ last.ret.out.stores[1].total_cents > last.ret.out.stores[2].total_cents

-----------------------------------------------------------------------------
(* Properties of the shopping list, the read commands and the exit status *)

Parseable(q) == q.t = "absent" \/ int(q).err = NoErr

\* an entry of the file that the normalization is to keep
KeptEntry(it) ==
    /\ it.dict
    /\ Strip(it.key) # <<>>
    /\ Parseable(it.qty)
    /\ (it.qty.t # "absent" => int(it.qty).v > 0)

NormalizedAsSpecified(raw) ==
    LET kept == SelectSeq(raw, KeptEntry)
    IN  [i \in DOMAIN kept |->
            [key |-> Strip(kept[i].key),
             qty |-> IF kept[i].qty.t = "absent" THEN 1 ELSE int(kept[i].qty).v]]

\* C21: loading a shopping list raises nothing for any list of entries, an
\* entry without a quantity gets quantity 1, an entry whose quantity is not
\* positive or cannot be parsed is dropped, and the entries that remain have
\* a non-empty key and an integer quantity > 0
C21_ListNormalized ==
    (last.op = "load_list" /\ last.key.file.items = "list"
        /\ Strip(last.key.path) # <<>>) =>
        /\ last.err = NoErr
        /\ last.ret = NormalizedAsSpecified(last.key.file.list)
        /\ \A i \in DOMAIN last.ret : last.ret[i].key # <<>> /\ last.ret[i].qty > 0

ReadOps == {"history", "cheapest", "compare_list", "doctor"}

\* a step that is a whole run of one of the read-side commands
ReadStep == pc \in Ended /\ pc' = "idle" /\ last'.op \in ReadOps

\* C22: a run of history/trend, cheapest, compare-list or doctor leaves the
\* stores, canonical items, store items and price observations exactly as
\* they were, whatever its arguments are, however it ends and whatever the
\* extractors that doctor calls do
C22_ReadCommandsWriteNothing == [][ReadStep => db' = db]_vars

C22_Witness ==
    /\ last.op = "doctor"
    /\ last.err = NoErr
    /\ last.ret = 1
    /\ db.price_observation # {}

\* an item of the run failed: its extraction raised or it was counted failed
AnyFailed ==
    \E i \in 1..Len(items) : res[i] = "failed" \/ ext[i] \notin {NoErr, "pending"}

\* C23: a scrape-all run ends with exit status 2 exactly when an item failed
\* and fail_on_error is set, that exit comes only after every item has been
\* processed and every counted insert is committed, and without the flag the
\* run ends normally however many items failed
C23_FatalOnlyOnOptIn ==
    RunOver =>
        /\ pc = "exit2" <=> (fail_on_error /\ AnyFailed)
        /\ pc = "exit2" =>
              \A i \in 1..Len(items) :
                  /\ res[i] # "pending"
                  /\ res[i] = "inserted" => ItemObs(db.price_observation, i) # {}
        /\ ~fail_on_error => pc = "done"

\* the missing-data conditions of a family: no tracked item, tracked items
\* without any observation, only packs of an unsupported unit
NoTracked(key) == FamilyItems(key) = {}

NoObservation(key) ==
    FamilyItems(key) # {} /\ \A it \in FamilyItems(key) : Latest(it.store_item_id) = {}

OnlyUnsupported(key) ==
    FamilyItems(key) # {} /\ \A it \in FamilyItems(key) : ~Supported(it.size, it.unit)

MissingData(key) == NoTracked(key) \/ NoObservation(key) \/ OnlyUnsupported(key)

\* C24: for a family with no tracked item, with tracked items but no
\* observation, or with packs of unsupported units only, history/trend,
\* cheapest and compare-list end normally and report the condition: history
\* reports no data, cheapest reports no tracked item, or every item as
\* missing, or a best option marked as not normalized, compare-list lists
\* the family as missing for each store that has no observed pack of it
C24_MissingDataNeverCrashes ==
    /\ (last.op = "history" /\ MissingData(last.ret.key)) =>
          /\ last.err = NoErr
          /\ (NoTracked(last.ret.key) \/ NoObservation(last.ret.key))
                => last.ret.out.nodata
    /\ (last.op = "cheapest" /\ MissingData(last.ret.key)) =>
          LET out == last.ret.out
              key == last.ret.key
          IN  /\ last.err = NoErr
              /\ NoTracked(key) => ~out.tracked
              /\ NoObservation(key) =>
                    out.observed = <<>> /\ Len(out.missing) = Cardinality(FamilyItems(key))
              /\ (OnlyUnsupported(key) /\ out.observed # <<>>) => ~out.best[1].normalized
    /\ last.op = "compare_list" =>
          /\ last.err = NoErr
          /\ \A k \in 1..Len(last.ret.out.stores), n \in 1..Len(last.ret.out.want) :
                LET e == last.ret.out.stores[k]
                    entry == last.ret.out.want[n]
                IN  (MissingData(entry[1]) /\ ~HasPack(e.store_id, entry))
                    => \E j \in 1..Len(e.missing) : e.missing[j] = entry

\* the trend report of a family as it is specified: one line per (store,
\* label, size, unit) that has observations; last is the observation of the
\* group with the greatest observed_on, prev the one with the greatest
\* observed_on of the others; n/a when the group has one observation
TrendReportAsSpecified(report, key) ==
    LET rows == HistoryRows(db, key)
        K(r) == <<r.store_name, r.label, r.size, r.unit>>
        Group(k) == {r \in rows : K(r) = k}
        Newest(S) == CHOOSE r \in S : \A q \in S : ~StrLess(r.observed_on, q.observed_on)
    IN  /\ {report[i].k : i \in DOMAIN report} = {K(r) : r \in rows}
        /\ Len(report) = Cardinality({K(r) : r \in rows})
        /\ \A i \in DOMAIN report :
              LET g == Group(report[i].k)
                  l == Newest(g)
              IN  /\ report[i].last = <<l.observed_on, l.price_cents>>
                  /\ report[i].na <=> Cardinality(g) = 1
                  /\ Cardinality(g) >= 2 =>
                        LET p == Newest(g \ {l})
                        IN  /\ report[i].prev = <<p.observed_on, p.price_cents>>
                            /\ report[i].trend.delta = l.price_cents - p.price_cents

\* C25: history --trend on a family that has observations ends with the
\* trend report: one group per (store, label, size, unit), of each group
\* the two observations with the greatest observed_on as last and prev, and
\* n/a with the latest value for a group of one observation
C25_TrendReport ==
    (last.op = "history" /\ last.ret.trend /\ HistoryRows(db, last.ret.key) # {}) =>
        /\ last.err = NoErr
        /\ last.ret.out.trend # <<>>
        /\ TrendReportAsSpecified(last.ret.out.trend, last.ret.key)

\* C26: insert_daily with a negative price or an empty observed_on raises a
\* validation error and writes no row, so no row with a negative price or an
\* empty date is ever stored; inside scrape-all an item whose insert is
\* rejected is counted as failed, nothing of it stays in the connection, and
\* every other item of the run is still processed
C26_InvalidObservationRejected ==
    /\ (last.op = "insert_daily" /\ ~last.valid) =>
          /\ last.err = "ValueError"
          /\ conn = db
          /\ Cardinality(db.price_observation) = last.before
    /\ \A r \in conn.price_observation \cup db.price_observation :
          r.price_cents >= 0 /\ r.observed_on # <<>>
    /\ \A i \in 1..Len(res) : (Day = <<>> /\ res[i] # "pending") => res[i] = "failed"
    /\ (Day = <<>> /\ pc \in {"summary", "done", "exit2"}) =>
          /\ failed = Len(items)
          /\ \A i \in 1..Len(items) : tries[i] = 1 /\ res[i] = "failed"

C26_Witness ==
    /\ pc = "done"
    /\ Len(items) = 2
    /\ failed = 2
    /\ ext = <<NoErr, NoErr>>
    /\ last.op = "insert_daily"
    /\ ~last.valid
    /\ last.err = "ValueError"
    /\ db.price_observation # {}

\* the product code of a path: its trailing digits, when a "-" precedes them
CodeOf(path) ==
    LET p == RStripSlash(path)
        n == Cardinality({i \in DOMAIN p : IsDigits(SubSeq(p, i, Len(p)))})
    IN  IF n > 0 /\ n < Len(p) /\ p[Len(p) - n] = "-"
        THEN SubSeq(p, Len(p) - n + 1, Len(p)) ELSE <<>>

\* the texts of best-price and the cents they stand for
CentsOf(price) ==
    IF price = <<"1", "1", ".", "9", "9">> THEN [number |-> TRUE, cents |-> 1199]
    ELSE IF price = <<"1", ".", "2", "3", "4", ",", "5", "6">>
         THEN [number |-> TRUE, cents |-> 123456]
    ELSE IF price = <<"1", ".", "0", "0", "5">> THEN [number |-> TRUE, cents |-> 100]
    ELSE IF price = <<"-", "1">> THEN [number |-> TRUE, cents |-> -100]
    ELSE [number |-> FALSE, cents |-> 0]

\* hit k is the one the priority rule chooses
ChosenHit(path, hits, k) ==
    LET ById == {i \in DOMAIN hits : hits[i].dict /\ hits[i].id = CodeOf(path)}
        ByUrl == {i \in DOMAIN hits :
                    /\ hits[i].dict /\ hits[i].mv /\ hits[i].url # <<>>
                    /\ RStripSlash(hits[i].url) = RStripSlash(path)}
    IN  IF ById # {} THEN k \in ById /\ \A j \in ById : k <= j
        ELSE IF ByUrl # {} THEN k \in ByUrl /\ \A j \in ByUrl : k <= j
        ELSE k = 1

\* the call returned the price and title of hit h
ReturnedFrom(h) ==
    /\ last.err = NoErr
    /\ last.ret.price_cents = CentsOf(h.price).cents
    /\ last.ret.price_cents >= 0
    /\ h.title # <<>> => last.ret.title_raw = h.title

\* the extractor fails when the URL has no product code, there is no hit,
\* or the chosen hit has no masterValues or no best-price, and returns the
\* price of the chosen hit in every other case
C27_SparAsClaimed ==
    last.op = "spar" =>
        LET path == last.key.path
            hits == last.key.hits
        IN  IF CodeOf(path) = <<>> \/ hits = <<>> THEN last.err # NoErr
            ELSE \E k \in DOMAIN hits :
                    /\ ChosenHit(path, hits, k)
                    /\ IF ~hits[k].dict \/ ~hits[k].mv \/ hits[k].price = <<>>
                       THEN last.err # NoErr
                       ELSE ReturnedFrom(hits[k])

\* C27: the SPAR extractor chooses the first hit whose id is the product
\* code of the URL, else the first hit whose masterValues.url is the URL's
\* path, else the first hit; it fails when the URL has no trailing product
\* code, the hit list is empty, the chosen hit has no masterValues or no
\* best-price, or the best-price is not a number or is negative in cents;
\* in every other case it returns the best-price of the chosen hit in cents,
\* not negative, with the hit's title
C27_SparHitPriority ==
    last.op = "spar" =>
        LET path == last.key.path
            hits == last.key.hits
        IN  IF CodeOf(path) = <<>> \/ hits = <<>> THEN last.err # NoErr
            ELSE \E k \in DOMAIN hits :
                    /\ ChosenHit(path, hits, k)
                    /\ IF \/ ~hits[k].dict \/ ~hits[k].mv \/ hits[k].price = <<>>
                          \/ ~CentsOf(hits[k].price).number
                          \/ CentsOf(hits[k].price).cents < 0
                       THEN last.err # NoErr
                       ELSE ReturnedFrom(hits[k])

C27_Witness ==
    /\ last.op = "spar"
    /\ last.err = NoErr
    /\ last.key.path = <<"/", "p", "/", "a", "-", "1", "2">>
    /\ Len(last.key.hits) = 2
    /\ last.key.hits[1].url = <<"/", "p", "/", "a", "-", "1", "2", "/">>
    /\ last.key.hits[2].id = <<"1", "2">>
    /\ last.key.hits[2].mv
    /\ last.ret = [price_cents |-> 1199, title_raw |-> <<"t">>]

\* a step that is a whole run of track-url
TrackStep == pc \in Ended /\ pc' = "idle" /\ last'.op = "track_url"

\* the (observed_on, price_cents) pairs of the trend lines of a family
TrendPoints(c, key) ==
    LET t == trend_report(c, key)
    IN  [i \in DOMAIN t |-> <<t[i].na, t[i].last, t[i].prev, t[i].trend>>]

\* a track-url that succeeds on a tracked (store, pack) returns the id the
\* store item had and leaves every store item with its id and pair, every
\* observation, every item's latest observation and the trend lines
RetrackKeeps ==
    (TrackStep /\ last'.err = NoErr /\ last'.hit) =>
        /\ last'.ret = last'.was
        /\ \A si \in db.store_item :
              /\ \E n \in db'.store_item :
                    /\ n.id = si.id
                    /\ n.store_id = si.store_id
                    /\ n.canonical_item_id = si.canonical_item_id
              /\ LatestObservation(db', si.id) = LatestObservation(db, si.id)
        /\ db'.price_observation = db.price_observation
        /\ TrendPoints(db', <<"m">>) = TrendPoints(db, <<"m">>)

\* an item that a run already counted as inserted or skipped for the date is
\* never counted as inserted again, and is skipped once its extraction has
\* succeeded, whatever url and scraper it is tracked with now
ObservedDateSkipped ==
    /\ seen \subseteq db.price_observation
    /\ \A i \in 1..Len(res) :
          ItemObs(seen, i) # {}
          => /\ res[i] # "inserted"
             /\ (ext[i] = NoErr /\ i < idx) => res[i] = "skipped"

\* C28: re-tracking a tracked (store, pack) with a new url or scraper keeps
\* the store item's id, so its observations, its latest price, its trend
\* and its (store item, date) keys are the same after the re-track as
\* before, and a scrape-all on a date already observed is skipped for it
C28_RetrackKeepsHistory == [][RetrackKeeps]_vars /\ []ObservedDateSkipped

\* the item was observed on the date, then re-tracked with the other url and
\* scraper, and the run that follows has extracted its price for that date
C28_Witness ==
    /\ pc = "insert"
    /\ last.op = "track_url"
    /\ last.err = NoErr
    /\ last.hit
    /\ last.chg
    /\ last.before >= 1
    /\ items[idx].store_item_id = last.ret
    /\ items[idx].url = <<"v">>
    /\ items[idx].scraper = <<"l", "i", "d", "l">>
    /\ ItemObs(seen, idx) # {}

\* a track-url that raises leaves every table as it was
FailedTrackWritesNothing == (TrackStep /\ last'.err # NoErr) => db' = db

\* every store and every canonical item has a store item
NoneWithoutMapping ==
    /\ \A x \in db.store : \E si \in db.store_item : si.store_id = x.id
    /\ \A x \in db.canonical_item : \E si \in db.store_item : si.canonical_item_id = x.id

\* C29: a track-url of which get-or-create of the store, the upsert of the
\* canonical item or the upsert of the mapping raises is rolled back as a
\* whole: the store, canonical item and store item tables are as before the
\* command, and at no time is there a store or a canonical item without a
\* store item
C29_TrackUrlAtomic == [][FailedTrackWritesNothing]_vars /\ []NoneWithoutMapping

\* track-url for the unknown store H has failed after get_or_create has
\* inserted the store in its transaction, on a database with tracked items
C29_Witness ==
    /\ last.op = "track_url"
    /\ last.err = "ValueError"
    /\ last.key = <<(<<"H">>), CanonKey(<<"m">>, 1, <<"l">>)>>
    /\ Cardinality(db.store_item) = 2
    /\ \A x \in db.store : x.name # <<"H">>

-----------------------------------------------------------------------------
(* Properties of the catalog repositories (SpecCatalog) *)

NonEmptyTrimmed(x) == x # <<>> /\ Strip(x) = x

\* C8: a second upsert of an already upserted (family_key, size, unit) with a
\* different valid label returns the id the earlier call returned, adds no
\* canonical item, and leaves the row carrying the second call's label.
C8_UpsertSameKeyUpdatesLabel ==
    (last.op = "upsert" /\ last.was # 0 /\ last.valid)
    => /\ last.err = NoErr
       /\ last.ret = last.was
       /\ Cardinality(db.canonical_item) = last.before
       /\ \E r \in db.canonical_item :
             /\ r.id = last.ret
             /\ RowKey(r) = last.key
             /\ r.label = last.val

C8_Witness ==
    /\ last.op = "upsert"
    /\ last.was # 0
    /\ last.ret = last.was
    /\ last.chg

\* C9: no two canonical items share (family_key, size, unit); every stored
\* item has size > 0 and non-empty trimmed family_key, unit and label; the
\* ids returned by upsert are the same for the same (trimmed) identity and
\* distinct for identities that differ in size or unit.
C9_CanonicalIdentity ==
    /\ \A r1, r2 \in db.canonical_item : RowKey(r1) = RowKey(r2) => r1 = r2
    /\ \A r \in db.canonical_item :
          /\ r.size > 0
          /\ NonEmptyTrimmed(r.family_key)
          /\ NonEmptyTrimmed(r.unit)
          /\ NonEmptyTrimmed(r.label)
    /\ \A p, q \in issued.canonical_item : (p[1] = q[1]) <=> (p[2] = q[2])
    /\ \A p \in issued.canonical_item :
          \E r \in db.canonical_item : r.id = p[2] /\ RowKey(r) = p[1]

C9_Witness ==
    \E p, q \in issued.canonical_item :
        /\ p[1][1] = q[1][1]
        /\ p[1][2] # q[1][2]
        /\ p[2] # q[2]
        /\ last.op = "upsert"
        /\ last.hit

StoresKept == [][\A r \in db.store : r \in db'.store]_vars

GetOrCreateOutcome ==
    last.op = "get_or_create" =>
      IF ~last.valid
      THEN last.err = "ValueError" /\ Cardinality(db.store) = last.before
      ELSE /\ last.err = NoErr
           /\ \E r \in db.store : r.name = last.key /\ r.id = last.ret
           /\ last.was # 0 => last.ret = last.was
           /\ Cardinality(db.store) = IF last.hit THEN last.before ELSE last.before + 1

\* C10: get_or_create trims the name; an empty trimmed name raises a
\* validation error and creates nothing; otherwise the store is created only
\* if absent, a name that was returned an id before is returned the same id
\* again without growing the table, and no store row is ever removed or changed.
C10_GetOrCreateStore == []GetOrCreateOutcome /\ StoresKept

C10_Witness ==
    /\ last.op = "get_or_create"
    /\ last.was # 0
    /\ last.ret = last.was
    /\ Cardinality(db.store) = 2

=============================================================================
